---- MODULE Spec2Model ----
(***************************************************************************)
(* ParadoxOS kernel (ethcocoder/universos): the evolution loop, the        *)
(* universe state machine, the interaction/event layer, the gravity        *)
(* scheduler, the Universal ISA and the snapshot/rewind facility.          *)
(*                                                                         *)
(* Real-valued quantities (energy, entropy, coupling, stability, momentum, *)
(* priority) are fixed-point integers: 1.0 is SCALE units, so one unit is  *)
(* 0.0001, the smallest constant the kernel uses (MIN_ENTROPY_DELTA, the   *)
(* base instruction cost).  Products are divided back in stages (MulDiv)   *)
(* and truncate toward zero.                                               *)
(***************************************************************************)
EXTENDS Integers, Sequences, FiniteSets, TLC

\* ------------------------------------------------------------------------
\* Fixed-point arithmetic
\* ------------------------------------------------------------------------

SCALE == 10000

Abs(x) == IF x < 0 THEN -x ELSE x

Sgn(x) == IF x < 0 THEN -1 ELSE 1

Min(a, b) == IF a < b THEN a ELSE b

Max(a, b) == IF a > b THEN a ELSE b

\* a * b / c truncated toward zero, without forming a * b.
MulDiv(a, b, c) ==
    LET aa == Abs(a)
        bb == Abs(b)
    IN  Sgn(a) * Sgn(b) * ((aa \div c) * bb + ((aa % c) * bb) \div c)

\* Fixed-point product and quotient of two scaled values.
FMul(a, b) == IF Abs(a) >= Abs(b) THEN MulDiv(a, b, SCALE) ELSE MulDiv(b, a, SCALE)

FDiv(a, b) == MulDiv(a, SCALE, b)

\* exp(-x) for a scaled x >= 0: e^-n by repeated multiplication with e^-1,
\* e^-f (0 <= f < 1) by its Taylor polynomial.
RECURSIVE ExpNegInt(_)
ExpNegInt(n) == IF n = 0 THEN SCALE
                ELSE IF n > 12 THEN 0
                ELSE MulDiv(ExpNegInt(n - 1), 36788, 100000)

ExpNegFrac(f) ==
    LET t1 == f
        t2 == FMul(t1, f) \div 2
        t3 == FMul(t2, f) \div 3
        t4 == FMul(t3, f) \div 4
        t5 == FMul(t4, f) \div 5
        t6 == FMul(t5, f) \div 6
    IN  SCALE - t1 + t2 - t3 + t4 - t5 + t6

ExpNeg(x) == FMul(ExpNegInt(x \div SCALE), ExpNegFrac(x % SCALE))

\* f64 -> u8 cast of a scaled value: truncates, saturates at 0 and 255.
AsU8(x) == IF x < 0 THEN 0 ELSE Min(x \div SCALE, 255)

RECURSIVE SumSeq(_)
SumSeq(s) == IF s = <<>> THEN 0 ELSE Head(s) + SumSeq(Tail(s))

RECURSIVE SetToSeq(_)
SetToSeq(S) == IF S = {} THEN <<>>
               ELSE LET x == CHOOSE y \in S : \A z \in S : y <= z
                    IN  <<x>> \o SetToSeq(S \ {x})

\* ------------------------------------------------------------------------
\* Program constants (lib.rs constants, in fixed-point units)
\* ------------------------------------------------------------------------

ENERGY_EPSILON == 10

STABILITY_THRESHOLD == 3000

DEFAULT_DECAY_RATE == 100

MIN_ENTROPY_DELTA == 1

HISTORY_CAPACITY == 100

SP_ADDR == 255

\* ------------------------------------------------------------------------
\* Universal ISA (universe/isa.rs)
\* ------------------------------------------------------------------------

NoEvent == [event_type |-> "None"]

\* state[a] for a 0-based address a.
Rd(mem, a) == mem[a + 1]

\* state[a] = v.  Rust panics on an index outside the vector: the machine
\* state carries that as fault.
Store(st, a, v) ==
    IF a >= 0 /\ a < Len(st.mem)
    THEN [st EXCEPT !.mem = [st.mem EXCEPT ![a + 1] = v]]
    ELSE [st EXCEPT !.fault = TRUE]

\* dest[i] = slice[i] for every byte of the copied slice.
RECURSIVE StoreSlice(_, _, _)
StoreSlice(st, dest, slice) ==
    IF slice = <<>> THEN st
    ELSE StoreSlice(Store(st, dest, Head(slice)), dest + 1, Tail(slice))

VmResult(st, ip, cost, ev) ==
    [mem |-> st.mem, fault |-> st.fault, next_ip |-> ip, cost |-> cost, event |-> ev]

VmEvent(type, target, payload, data) ==
    [event_type |-> type, target |-> target, energy_payload |-> payload, data |-> data]

\* ATOM_SET without its check of the address against the vector's length.
StepAtomSetUnchecked(st, ip) ==
    LET n == Len(st.mem) IN
    IF ip + 2 < n
    THEN VmResult(Store(st, Rd(st.mem, ip + 1), Rd(st.mem, ip + 2)), ip + 3, 1, NoEvent)
    ELSE VmResult(st, ip + 1, 1, NoEvent)

StepAtomSet(st, ip) ==
    LET n == Len(st.mem) IN
    IF ip + 2 < n
    THEN LET addr == Rd(st.mem, ip + 1)
             val  == Rd(st.mem, ip + 2)
         IN  IF n > addr
             THEN VmResult(Store(st, addr, val), ip + 3,
                           IF Rd(st.mem, addr) # val THEN 1 + 100 ELSE 1, NoEvent)
             ELSE VmResult(st, ip + 3, 1, NoEvent)
    ELSE VmResult(st, ip + 1, 1, NoEvent)

BitXor8(a, b) ==
    LET bit(x, i) == (x \div (2 ^ i)) % 2
        RECURSIVE acc(_)
        acc(i) == IF i = 8 THEN 0
                  ELSE (IF bit(a, i) # bit(b, i) THEN 2 ^ i ELSE 0) + acc(i + 1)
    IN  acc(0)

StepAtomXor(st, ip) ==
    LET n == Len(st.mem) IN
    IF ip + 2 < n
    THEN LET addr == Rd(st.mem, ip + 1)
             val  == Rd(st.mem, ip + 2)
         IN  IF n > addr
             THEN VmResult(Store(st, addr, BitXor8(Rd(st.mem, addr), val)), ip + 3, 1 + 50, NoEvent)
             ELSE VmResult(st, ip + 3, 1, NoEvent)
    ELSE VmResult(st, ip + 1, 1, NoEvent)

StepAtomCopy(st, ip) ==
    LET n == Len(st.mem) IN
    IF ip + 3 < n
    THEN LET src  == Rd(st.mem, ip + 1)
             dest == Rd(st.mem, ip + 2)
             len  == Rd(st.mem, ip + 3)
         IN  IF src + len <= n /\ dest + len <= n
             THEN VmResult(StoreSlice(st, dest, SubSeq(st.mem, src + 1, src + len)),
                           ip + 4, 1 + 10 * len, NoEvent)
             ELSE VmResult(st, ip + 4, 1, NoEvent)
    ELSE VmResult(st, ip + 1, 1, NoEvent)

\* ADD (sign = 1) and SUB (sign = -1): wrapping 8-bit arithmetic in place.
StepAddSub(st, ip, sign) ==
    LET n == Len(st.mem) IN
    IF ip + 2 < n
    THEN LET dest == Rd(st.mem, ip + 1)
             src  == Rd(st.mem, ip + 2)
         IN  IF dest < n /\ src < n
             THEN VmResult(Store(st, dest, (Rd(st.mem, dest) + sign * Rd(st.mem, src)) % 256),
                           ip + 3, 1 + 20, NoEvent)
             ELSE VmResult(st, ip + 3, 1, NoEvent)
    ELSE VmResult(st, ip + 1, 1, NoEvent)

StepCmp(st, ip) ==
    LET n == Len(st.mem) IN
    IF ip + 3 < n
    THEN LET a_addr == Rd(st.mem, ip + 1)
             b_addr == Rd(st.mem, ip + 2)
             result_addr == Rd(st.mem, ip + 3)
         IN  IF a_addr < n /\ b_addr < n /\ result_addr < n
             THEN LET a == Rd(st.mem, a_addr)
                      b == Rd(st.mem, b_addr)
                  IN  VmResult(Store(st, result_addr, IF a > b THEN 1 ELSE IF a = b THEN 0 ELSE 255),
                               ip + 4, 1 + 10, NoEvent)
             ELSE VmResult(st, ip + 4, 1, NoEvent)
    ELSE VmResult(st, ip + 1, 1, NoEvent)

StepJump(st, ip) ==
    IF ip + 1 < Len(st.mem)
    THEN VmResult(st, Rd(st.mem, ip + 1), 1 + 5, NoEvent)
    ELSE VmResult(st, ip + 1, 1, NoEvent)

StepJumpIf(st, ip) ==
    LET n == Len(st.mem) IN
    IF ip + 2 < n
    THEN LET cond_addr == Rd(st.mem, ip + 1)
             target    == Rd(st.mem, ip + 2)
         IN  IF n > cond_addr /\ Rd(st.mem, cond_addr) # 0
             THEN VmResult(st, target, 1, NoEvent)
             ELSE VmResult(st, ip + 3, 1, NoEvent)
    ELSE VmResult(st, ip + 1, 1, NoEvent)

StepCall(st, ip) ==
    LET n == Len(st.mem) IN
    IF ip + 1 < n
    THEN LET target == Rd(st.mem, ip + 1) IN
         IF SP_ADDR < n
         THEN LET sp == Rd(st.mem, SP_ADDR)
                  return_addr == (ip + 2) % 256
              IN  IF sp > 0 /\ sp < n
                  THEN VmResult(Store(Store(st, sp, return_addr), SP_ADDR,
                                      (Rd(Store(st, sp, return_addr).mem, SP_ADDR) + 255) % 256),
                                target, 1 + 30, NoEvent)
                  ELSE VmResult(st, target, 1 + 30, NoEvent)
         ELSE VmResult(st, ip + 1, 1, NoEvent)
    ELSE VmResult(st, ip + 1, 1, NoEvent)

StepRet(st, ip) ==
    LET n == Len(st.mem) IN
    IF SP_ADDR < n
    THEN LET sp == (Rd(st.mem, SP_ADDR) + 1) % 256 IN
         IF sp < n
         THEN LET st1 == Store(st, SP_ADDR, sp)
              IN  VmResult(st1, Rd(st1.mem, sp), 1 + 20, NoEvent)
         ELSE VmResult(st, ip + 1, 1, NoEvent)
    ELSE VmResult(st, ip + 1, 1, NoEvent)

StepPush(st, ip) ==
    LET n == Len(st.mem) IN
    IF ip + 1 < n
    THEN LET addr == Rd(st.mem, ip + 1) IN
         IF addr < n /\ SP_ADDR < n
         THEN LET sp == Rd(st.mem, SP_ADDR) IN
              IF sp > 0 /\ sp < n
              THEN LET st1 == Store(st, sp, Rd(st.mem, addr))
                   IN  VmResult(Store(st1, SP_ADDR, (Rd(st1.mem, SP_ADDR) + 255) % 256),
                                ip + 2, 1 + 20, NoEvent)
              ELSE VmResult(st, ip + 2, 1, NoEvent)
         ELSE VmResult(st, ip + 2, 1, NoEvent)
    ELSE VmResult(st, ip + 1, 1, NoEvent)

StepPop(st, ip) ==
    LET n == Len(st.mem) IN
    IF ip + 1 < n
    THEN LET addr == Rd(st.mem, ip + 1) IN
         IF addr < n /\ SP_ADDR < n
         THEN LET sp == (Rd(st.mem, SP_ADDR) + 1) % 256 IN
              IF sp < n
              THEN LET st1 == Store(st, SP_ADDR, sp)
                   IN  VmResult(Store(st1, addr, Rd(st1.mem, sp)), ip + 2, 1 + 20, NoEvent)
              ELSE VmResult(st, ip + 2, 1, NoEvent)
         ELSE VmResult(st, ip + 2, 1, NoEvent)
    ELSE VmResult(st, ip + 1, 1, NoEvent)

StepSignal(st, ip) ==
    LET n == Len(st.mem) IN
    IF ip + 3 < n
    THEN LET target_id == Rd(st.mem, ip + 1)
             len       == Rd(st.mem, ip + 2)
         IN  IF ip + 3 + len <= n
             THEN VmResult(st, ip + 1 + 3 + len, 1 + 10 + len,
                           VmEvent("Signal", target_id, SCALE,
                                   SubSeq(st.mem, ip + 4, ip + 3 + len)))
             ELSE VmResult(st, ip + 2, 1, NoEvent)
    ELSE VmResult(st, ip + 2, 1, NoEvent)

StepEntangle(st, ip) ==
    IF ip + 2 < Len(st.mem)
    THEN VmResult(st, ip + 3, 1 + 5 * SCALE,
                  VmEvent("Entangle", Rd(st.mem, ip + 1),
                          (Rd(st.mem, ip + 2) * 10 * SCALE) \div 255,
                          <<Rd(st.mem, ip + 2)>>))
    ELSE VmResult(st, ip + 1, 1, NoEvent)

StepObserve(st, ip) ==
    IF ip + 3 < Len(st.mem)
    THEN VmResult(st, ip + 4, 1 + SCALE \div 2,
                  VmEvent("Observation", Rd(st.mem, ip + 1), SCALE \div 10,
                          <<Rd(st.mem, ip + 2), Rd(st.mem, ip + 3)>>))
    ELSE VmResult(st, ip + 1, 1, NoEvent)

StepRevert(st, ip) ==
    IF ip + 1 < Len(st.mem)
    THEN VmResult(st, ip + 2, 1 + 2 * SCALE,
                  VmEvent("Reversion", 0, Rd(st.mem, ip + 1) * 2 * SCALE,
                          <<Rd(st.mem, ip + 1)>>))
    ELSE VmResult(st, ip + 1, 1, NoEvent)

StepBranch(st, ip) ==
    IF ip + 2 < Len(st.mem)
    THEN VmResult(st, ip + 3, 1 + 10 * SCALE,
                  VmEvent("Branch", 0, Rd(st.mem, ip + 1) * SCALE,
                          <<Rd(st.mem, ip + 2)>>))
    ELSE VmResult(st, ip + 1, 1, NoEvent)

\* MEM_ALLOC, MEM_MAP (two operands) and MEM_SWAP (one operand): cost only;
\* no universe maps a page, so MEM_SWAP finds no page to swap.
StepMem(st, ip, operands, cost) ==
    IF ip + operands < Len(st.mem)
    THEN VmResult(st, ip + 1 + operands, 1 + cost, NoEvent)
    ELSE VmResult(st, ip + 1, 1, NoEvent)

\* A HALT that is stepped over like NOP, at the base cost.
StepHaltSkipped(st, ip) == VmResult(st, ip + 1, 1, NoEvent)

\* HALT: the instruction pointer stays, nothing is charged.
StepHalt(st, ip) == VmResult(st, ip, 0, NoEvent)

\* UniversalProcessor::step(state, ip): (next ip, cost, event) and the memory.
Step(mem, ip) ==
    LET st == [mem |-> mem, fault |-> FALSE] IN
    IF ip >= Len(mem) THEN VmResult(st, 0, 0, NoEvent)
    ELSE LET op == Rd(mem, ip) IN
         CASE op = 1   -> StepAtomSet(st, ip)
           [] op = 2   -> StepAtomXor(st, ip)
           [] op = 3   -> StepAtomCopy(st, ip)
           [] op = 4   -> StepAddSub(st, ip, 1)
           [] op = 5   -> StepAddSub(st, ip, -1)
           [] op = 6   -> StepCmp(st, ip)
           [] op = 16  -> StepJump(st, ip)
           [] op = 17  -> StepJumpIf(st, ip)
           [] op = 32  -> StepCall(st, ip)
           [] op = 33  -> StepRet(st, ip)
           [] op = 34  -> StepPush(st, ip)
           [] op = 35  -> StepPop(st, ip)
           [] op = 240 -> StepSignal(st, ip)
           [] op = 241 -> StepEntangle(st, ip)
           [] op = 242 -> StepObserve(st, ip)
           [] op = 243 -> StepRevert(st, ip)
           [] op = 244 -> StepBranch(st, ip)
           [] op = 160 -> StepMem(st, ip, 2, SCALE)
           [] op = 161 -> StepMem(st, ip, 2, 2 * SCALE)
           [] op = 162 -> StepMem(st, ip, 1, SCALE \div 2)
           [] op = 255 -> StepHalt(st, ip)
           [] OTHER    -> VmResult(st, ip + 1, 1, NoEvent)

\* ------------------------------------------------------------------------
\* StateVector (types.rs)
\* ------------------------------------------------------------------------

\* StateVector::empty()
EmptyVector == [data |-> <<>>, original_size |-> 0, is_compressed |-> FALSE]

\* StateVector::from_raw(data): the bytes as given, not compressed.
FromRaw(bytes) == [data |-> bytes, original_size |-> Len(bytes), is_compressed |-> FALSE]

\* StateVector::compress(data): packed is what the compressor made of the
\* bytes; the vector remembers their number.
Compress(bytes, packed) ==
    [data |-> packed, original_size |-> Len(bytes), is_compressed |-> TRUE]

\* StateVector::new_raw(code): the VM's 256-byte window holding the code, with
\* the stack pointer byte (255) at its initial value 254.
NewRaw(code) ==
    [data |-> [i \in 1..(SP_ADDR + 1) |->
                  IF i <= Len(code) THEN code[i]
                  ELSE IF i = SP_ADDR + 1 THEN SP_ADDR - 1 ELSE 0],
     original_size |-> SP_ADDR + 1,
     is_compressed |-> FALSE]

\* StateVector::potential_energy(): 0.001 J per byte saved by compression.
PotentialEnergy(sv) ==
    IF ~sv.is_compressed \/ sv.original_size = 0 THEN 0
    ELSE Max(sv.original_size - Len(sv.data), 0) * 10

\* ------------------------------------------------------------------------
\* Universe (universe/universe.rs, universe/lifecycle.rs)
\* ------------------------------------------------------------------------

UniverseNew(id, initial_energy) ==
    [id |-> id,
     state_vector |-> EmptyVector,
     instruction_pointer |-> 0,
     energy |-> initial_energy,
     entropy |-> 0,
     stability_score |-> SCALE,
     timeline_index |-> 0,
     interaction_links |-> {},
     creation_time |-> 0,
     last_evolution |-> 0]

AddInteraction(u, iid) == [u EXCEPT !.interaction_links = @ \cup {iid}]

InteractionDensity(u) == Cardinality(u.interaction_links)

InternalResistance(u) == FMul(u.entropy, SCALE - u.stability_score)

\* timeline += ceil(1 / (1 + density)) when density > 0, else 1.
AdvanceTime(u) ==
    LET density == InteractionDensity(u)
        time_delta == IF density > 0 THEN (1 + density) \div (1 + density) ELSE 1
    IN  [u EXCEPT !.timeline_index = @ + time_delta]

\* assert!(delta >= 0.0): a negative delta panics.
IncreaseEntropy(u, delta) ==
    [ok |-> delta >= 0, u |-> [u EXCEPT !.entropy = @ + delta]]

\* A transfer_energy that also refuses to withdraw all the energy there is.
TransferEnergyStrict(u, amount) ==
    IF amount < 0 /\ u.energy <= Abs(amount)
    THEN [ok |-> FALSE, u |-> u]
    ELSE LET v == [u EXCEPT !.energy = @ + amount]
         IN  [ok |-> v.energy >= 0, u |-> v]

\* Result of transfer_energy: ok = FALSE is Err(InsufficientEnergy).
TransferEnergy(u, amount) ==
    IF amount < 0 /\ u.energy < Abs(amount)
    THEN [ok |-> FALSE, u |-> u]
    ELSE LET v == [u EXCEPT !.energy = @ + amount]
         IN  [ok |-> v.energy >= 0, u |-> v]

UpdateStability(u) ==
    LET entropy_factor == ExpNeg(u.entropy \div 100)
        energy_factor  == IF u.energy > 0 THEN Min(u.energy \div 100, SCALE) ELSE 0
    IN  [u EXCEPT !.stability_score = Max(0, Min(FMul(entropy_factor, energy_factor), SCALE))]

\* A branch whose child inherits the entropy the parent has after the
\* branch.
UniverseBranchLate(u, new_id) ==
    LET memory_cost == PotentialEnergy(u.state_vector) IN
    IF u.energy < 10 * SCALE + memory_cost
    THEN [ok |-> FALSE, parent |-> u, child |-> u]
    ELSE LET rest == u.energy - memory_cost
             branch_energy == rest \div 2
         IN  [ok |-> TRUE,
              parent |-> [u EXCEPT !.energy = rest - branch_energy,
                                   !.entropy = @ + SCALE],
              child |-> [id |-> new_id,
                         state_vector |-> u.state_vector,
                         instruction_pointer |-> u.instruction_pointer,
                         energy |-> branch_energy,
                         entropy |-> u.entropy + SCALE,
                         stability_score |-> SCALE \div 2,
                         timeline_index |-> u.timeline_index,
                         interaction_links |-> {},
                         creation_time |-> 0,
                         last_evolution |-> 0]]

\* Universe::branch(new_id): ok = FALSE is Err(InsufficientEnergy).  Halving
\* is exact in f64; here the parent keeps the odd unit.
UniverseBranch(u, new_id) ==
    LET memory_cost == PotentialEnergy(u.state_vector) IN
    IF u.energy < 10 * SCALE + memory_cost
    THEN [ok |-> FALSE, parent |-> u, child |-> u]
    ELSE LET rest == u.energy - memory_cost
             branch_energy == rest \div 2
         IN  [ok |-> TRUE,
              parent |-> [u EXCEPT !.energy = rest - branch_energy,
                                   !.entropy = @ + SCALE],
              child |-> [id |-> new_id,
                         state_vector |-> u.state_vector,
                         instruction_pointer |-> u.instruction_pointer,
                         energy |-> branch_energy,
                         entropy |-> u.entropy,
                         stability_score |-> SCALE \div 2,
                         timeline_index |-> u.timeline_index,
                         interaction_links |-> {},
                         creation_time |-> 0,
                         last_evolution |-> 0]]

\* Universe::snapshot()
UniverseSnapshot(u) ==
    [state_vector |-> u.state_vector,
     energy |-> u.energy,
     entropy |-> u.entropy,
     stability_score |-> u.stability_score,
     timeline_index |-> u.timeline_index]

\* A restore that takes the snapshot's entropy as it is.
RestoreFromSnapshotOverwrite(u, snapshot) ==
    [u EXCEPT !.state_vector = snapshot.state_vector,
              !.energy = snapshot.energy,
              !.entropy = snapshot.entropy,
              !.stability_score = snapshot.stability_score,
              !.timeline_index = snapshot.timeline_index]

\* Universe::restore_from_snapshot(snapshot)
RestoreFromSnapshot(u, snapshot) ==
    [u EXCEPT !.state_vector = snapshot.state_vector,
              !.energy = snapshot.energy,
              !.entropy = Max(u.entropy, snapshot.entropy),
              !.stability_score = snapshot.stability_score,
              !.timeline_index = snapshot.timeline_index]

\* Universe::execute_step(): one VM step on the universe's own memory.  The
\* step's cost and the emitted event's payload are debited from the universe;
\* the event gets the universe as its source and the id tick*1000 + source
\* mod 1000.
Executed(u, r) ==
    [u |-> [u EXCEPT !.state_vector.data = r.mem,
                     !.instruction_pointer = r.next_ip,
                     !.energy = @ - r.cost
                                  - (IF r.event = NoEvent THEN 0 ELSE r.event.energy_payload)],
     cost |-> r.cost,
     fault |-> r.fault,
     event |-> IF r.event = NoEvent THEN NoEvent
               ELSE [id |-> u.last_evolution * 1000 + (u.id % 1000),
                     event_type |-> r.event.event_type,
                     source |-> u.id,
                     target |-> r.event.target,
                     energy_payload |-> r.event.energy_payload,
                     data |-> r.event.data,
                     creation_step |-> u.last_evolution]]

ExecuteStep(u) == Executed(u, Step(u.state_vector.data, u.instruction_pointer))

\* ------------------------------------------------------------------------
\* Interaction and its event queues (interaction/interaction.rs, event.rs)
\* ------------------------------------------------------------------------

\* Interaction::new without its range check on the coupling.
InteractionNewUnchecked(id, source, target, coupling_strength) ==
    [ok |-> TRUE,
     i |-> [id |-> id,
            source |-> source,
            target |-> target,
            coupling_strength |-> coupling_strength,
            momentum |-> 0,
            decay_rate |-> DEFAULT_DECAY_RATE,
            age |-> 0,
            total_energy_transferred |-> 0,
            forward_events |-> <<>>,
            backward_events |-> <<>>]]

\* Interaction::new: ok = FALSE is Err(InvalidCoupling).
InteractionNew(id, source, target, coupling_strength) ==
    [ok |-> coupling_strength >= 0 /\ coupling_strength <= SCALE,
     i |-> [id |-> id,
            source |-> source,
            target |-> target,
            coupling_strength |-> coupling_strength,
            momentum |-> 0,
            decay_rate |-> DEFAULT_DECAY_RATE,
            age |-> 0,
            total_energy_transferred |-> 0,
            forward_events |-> <<>>,
            backward_events |-> <<>>]]

ApplyDecay(i) ==
    [i EXCEPT !.coupling_strength = Max(FMul(@, SCALE - i.decay_rate), 0),
              !.age = @ + 1]

CalculateEnergyTransfer(i, step_fraction) ==
    FMul(FMul(i.momentum, i.coupling_strength), step_fraction)

RecordTransfer(i, amount) == [i EXCEPT !.total_energy_transferred = @ + Abs(amount)]

IsActive(i) == i.coupling_strength > 10

SetMomentum(i, energy_source, energy_target) ==
    LET gradient == energy_source - energy_target
    IN  [i EXCEPT !.momentum = FMul(FMul(gradient, i.coupling_strength), 100)]

\* EventQueue::push(event): the event goes to the back.
QueuePush(q, event) == Append(q, event)

\* A pop that takes the newest event, the back of the queue.
QueuePopNewest(q) ==
    IF q = <<>> THEN [some |-> FALSE, rest |-> q]
    ELSE [some |-> TRUE, event |-> q[Len(q)], rest |-> SubSeq(q, 1, Len(q) - 1)]

\* EventQueue::pop(): None on an empty queue, else events.remove(0).
QueuePop(q) ==
    IF q = <<>> THEN [some |-> FALSE, rest |-> q]
    ELSE [some |-> TRUE, event |-> Head(q), rest |-> Tail(q)]

\* The events of a queue in the order in which pop hands them over.
RECURSIVE Drain(_)
Drain(q) ==
    IF ~QueuePop(q).some THEN <<>>
    ELSE <<QueuePop(q).event>> \o Drain(QueuePop(q).rest)

\* EventQueue::total_energy over a queue.
RECURSIVE TotalEnergy(_)
TotalEnergy(q) == IF q = <<>> THEN 0 ELSE Head(q).energy_payload + TotalEnergy(Tail(q))

\* Interaction::pending_energy(): the payloads queued in both directions.
PendingEnergy(i) == TotalEnergy(i.forward_events) + TotalEnergy(i.backward_events)

\* Interaction::push_event(event): the queue of the event's direction;
\* ok = FALSE is Err(MissingEndpoint).
PushEvent(i, event) ==
    IF event.source = i.source /\ event.target = i.target
    THEN [ok |-> TRUE, i |-> [i EXCEPT !.forward_events = QueuePush(@, event)]]
    ELSE IF event.source = i.target /\ event.target = i.source
    THEN [ok |-> TRUE, i |-> [i EXCEPT !.backward_events = QueuePush(@, event)]]
    ELSE [ok |-> FALSE, i |-> i]

\* Interaction::process_events(): single-hop delivery, every queued event
\* arrives; both queues are left empty.
ProcessEvents(i) ==
    [arrived |-> Drain(i.forward_events) \o Drain(i.backward_events),
     i |-> [i EXCEPT !.forward_events = <<>>, !.backward_events = <<>>]]

\* ------------------------------------------------------------------------
\* Kernel (physics/kernel.rs).  The operations are functions of the kernel
\* value k; the actions below install their results.
\* ------------------------------------------------------------------------

RECURSIVE SumOver(_, _)
SumOver(S, f) == IF S = {} THEN 0
                 ELSE LET x == CHOOSE y \in S : TRUE
                      IN  f[x] + SumOver(S \ {x}, f)

\* Kernel::calculate_total_energy(): pool + universes + events in transit.
CalculateTotalEnergy(k) ==
    k.global_energy
    + SumOver(DOMAIN k.universes, [id \in DOMAIN k.universes |-> k.universes[id].energy])
    + SumOver(DOMAIN k.interactions,
              [id \in DOMAIN k.interactions |-> PendingEnergy(k.interactions[id])])

\* Kernel::energy_flux()
EnergyFlux(k) == k.energy_materialized - k.energy_radiated

\* f with the key x bound to v (HashMap::insert).
Insert(f, x, v) == [y \in DOMAIN f \cup {x} |-> IF y = x THEN v ELSE f[y]]

\* f without the keys in S (HashMap::remove).
Without(f, S) == [y \in DOMAIN f \ S |-> f[y]]

\* A spawn_universe that also refuses to hand out the whole pool.
SpawnUniverseStrict(k, initial_energy) ==
    IF initial_energy >= k.global_energy
    THEN [ok |-> FALSE, k |-> k]
    ELSE LET id == k.next_universe_id
             universe == [UniverseNew(id, initial_energy) EXCEPT
                              !.creation_time = k.evolution_step]
         IN  [ok |-> TRUE,
              k |-> [k EXCEPT !.next_universe_id = @ + 1,
                              !.global_energy = @ - initial_energy,
                              !.global_entropy = @ + SCALE + initial_energy \div 100,
                              !.universes = Insert(@, id, universe)]]

\* Kernel::spawn_universe(initial_energy)
SpawnUniverse(k, initial_energy) ==
    IF initial_energy > k.global_energy
    THEN [ok |-> FALSE, k |-> k]
    ELSE LET id == k.next_universe_id
             universe == [UniverseNew(id, initial_energy) EXCEPT
                              !.creation_time = k.evolution_step]
         IN  [ok |-> TRUE,
              k |-> [k EXCEPT !.next_universe_id = @ + 1,
                              !.global_energy = @ - initial_energy,
                              !.global_entropy = @ + SCALE + initial_energy \div 100,
                              !.universes = Insert(@, id, universe)]]

\* Kernel::inject_energy(target_id, amount)
InjectEnergy(k, target_id, amount) ==
    IF amount > k.global_energy THEN [ok |-> FALSE, k |-> k]
    ELSE IF target_id \notin DOMAIN k.universes THEN [ok |-> FALSE, k |-> k]
    ELSE [ok |-> TRUE,
          k |-> [k EXCEPT !.universes[target_id].energy = @ + amount,
                          !.global_energy = @ - amount]]

\* Kernel::branch_universe(parent_id)
BranchUniverse(k, parent_id) ==
    LET new_id == k.next_universe_id IN
    IF parent_id \notin DOMAIN k.universes
    THEN [ok |-> FALSE, k |-> k, new_id |-> new_id]
    ELSE LET b == UniverseBranch(k.universes[parent_id], new_id) IN
         IF ~b.ok THEN [ok |-> FALSE, k |-> k, new_id |-> new_id]
         ELSE [ok |-> TRUE,
               new_id |-> new_id,
               k |-> [k EXCEPT
                        !.next_universe_id = @ + 1,
                        !.global_entropy = @ + SCALE \div 2,
                        !.universes = Insert([@ EXCEPT ![parent_id] = b.parent], new_id,
                                             [b.child EXCEPT !.creation_time = k.evolution_step])]]

\* Kernel::create_interaction(source, target, coupling_strength)
CreateInteraction(k, source, target, coupling_strength) ==
    IF source \notin DOMAIN k.universes \/ target \notin DOMAIN k.universes
    THEN [ok |-> FALSE, k |-> k]
    ELSE LET id == k.next_interaction_id
             n  == InteractionNew(id, source, target, coupling_strength)
             k1 == [k EXCEPT !.next_interaction_id = @ + 1]
         IN  IF ~n.ok THEN [ok |-> FALSE, k |-> k1]
             ELSE [ok |-> TRUE,
                   k |-> [k1 EXCEPT
                            !.universes = [u \in DOMAIN @ |->
                                IF u = source \/ u = target
                                THEN AddInteraction(@[u], id) ELSE @[u]],
                            !.global_entropy = @ + SCALE \div 2,
                            !.interactions = Insert(@, id, n.i)]]

\* A load_program that leaves the instruction pointer where it is.
LoadProgramKeepIp(k, universe_id, code) ==
    IF universe_id \notin DOMAIN k.universes THEN [ok |-> FALSE, k |-> k]
    ELSE [ok |-> TRUE,
          k |-> [k EXCEPT !.universes[universe_id].state_vector = NewRaw(code)]]

\* Kernel::load_program(universe_id, code)
LoadProgram(k, universe_id, code) ==
    IF universe_id \notin DOMAIN k.universes THEN [ok |-> FALSE, k |-> k]
    ELSE [ok |-> TRUE,
          k |-> [k EXCEPT !.universes[universe_id].state_vector = NewRaw(code),
                          !.universes[universe_id].instruction_pointer = 0]]

KernelSnapshot(k) ==
    [global_energy |-> k.global_energy,
     global_entropy |-> k.global_entropy,
     universes |-> k.universes,
     interactions |-> k.interactions,
     evolution_step |-> k.evolution_step,
     energy_radiated |-> k.energy_radiated,
     energy_materialized |-> k.energy_materialized]

\* capture_snapshot without the eviction of the oldest snapshot.
CaptureSnapshotUnbounded(k) == [k EXCEPT !.history = Append(@, KernelSnapshot(k))]

\* Kernel::capture_snapshot()
CaptureSnapshot(k) ==
    LET pushed == Append(k.history, KernelSnapshot(k))
    IN  [k EXCEPT !.history = IF Len(pushed) > HISTORY_CAPACITY THEN Tail(pushed) ELSE pushed]

\* A rewind that also takes the id counters back to just past the restored
\* universes and interactions.
RewindReclaimIds(k, steps) ==
    IF k.history = <<>> THEN [ok |-> FALSE, k |-> k]
    ELSE LET target_index == Max(Len(k.history) - Max(steps, 1), 0) IN
         IF target_index < Len(k.history)
         THEN LET snapshot == k.history[target_index + 1] IN
              [ok |-> TRUE,
               k |-> [k EXCEPT !.global_energy = snapshot.global_energy,
                               !.global_entropy = snapshot.global_entropy,
                               !.universes = snapshot.universes,
                               !.interactions = snapshot.interactions,
                               !.evolution_step = snapshot.evolution_step,
                               !.energy_radiated = snapshot.energy_radiated,
                               !.energy_materialized = snapshot.energy_materialized,
                               !.next_universe_id =
                                   Cardinality({id \in 1..@ : \E u \in DOMAIN snapshot.universes : id <= u}) + 1,
                               !.next_interaction_id =
                                   Cardinality({id \in 1..@ : \E i \in DOMAIN snapshot.interactions : id <= i}) + 1,
                               !.history = SubSeq(@, 1, target_index),
                               !.rewinds = @ + 1]]
         ELSE [ok |-> FALSE, k |-> k]

\* Kernel::rewind(steps): ok is the returned bool.  History indices are
\* 0-based in the source; target_index = len - max(steps, 1), saturating.
\* rewinds counts the rewinds done (observation field).
Rewind(k, steps) ==
    IF k.history = <<>> THEN [ok |-> FALSE, k |-> k]
    ELSE LET target_index == Max(Len(k.history) - Max(steps, 1), 0) IN
         IF target_index < Len(k.history)
         THEN LET snapshot == k.history[target_index + 1] IN
              [ok |-> TRUE,
               k |-> [k EXCEPT !.global_energy = snapshot.global_energy,
                               !.global_entropy = snapshot.global_entropy,
                               !.universes = snapshot.universes,
                               !.interactions = snapshot.interactions,
                               !.evolution_step = snapshot.evolution_step,
                               !.energy_radiated = snapshot.energy_radiated,
                               !.energy_materialized = snapshot.energy_materialized,
                               !.history = SubSeq(@, 1, target_index),
                               !.rewinds = @ + 1]]
         ELSE [ok |-> FALSE, k |-> k]

\* A collapse_universe that leaves the universe's interactions in the table.
CollapseUniverseKeepLinks(k, id) ==
    IF id \notin DOMAIN k.universes THEN [ok |-> FALSE, k |-> k]
    ELSE LET universe == k.universes[id] IN
         [ok |-> TRUE,
          k |-> [k EXCEPT !.universes = Without(@, {id}),
                          !.global_energy = @ + Max(universe.energy, 0),
                          !.global_entropy = @ + universe.entropy]]

\* Kernel::collapse_universe(id)
CollapseUniverse(k, id) ==
    IF id \notin DOMAIN k.universes THEN [ok |-> FALSE, k |-> k]
    ELSE LET universe == k.universes[id] IN
         [ok |-> TRUE,
          k |-> [k EXCEPT !.universes = Without(@, {id}),
                          !.global_energy = @ + Max(universe.energy, 0),
                          !.global_entropy = @ + universe.entropy,
                          !.interactions = Without(@, universe.interaction_links)]]

\* Kernel::sabotage_universe(id, energy_drain)
SabotageUniverse(k, id, energy_drain) ==
    IF id \notin DOMAIN k.universes THEN [ok |-> FALSE, k |-> k]
    ELSE LET actual_drain == Min(energy_drain, k.universes[id].energy) IN
         [ok |-> TRUE,
          k |-> [k EXCEPT !.universes[id].energy = @ - actual_drain,
                          !.global_energy = @ + actual_drain,
                          !.universes[id].stability_score = Max(@ - 2 * (SCALE \div 10), 0)]]

\* Kernel::calculate_interaction_pressure(universe_id)
CalculateInteractionPressure(k, universe_id) ==
    IF universe_id \notin DOMAIN k.universes THEN 0
    ELSE LET links == k.universes[universe_id].interaction_links \cap DOMAIN k.interactions
         IN  SumOver(links, [i \in links |->
                 FMul(k.interactions[i].coupling_strength, Abs(k.interactions[i].momentum))])

\* The sequences that enumerate the set S once each.
RECURSIVE Orders(_)
Orders(S) == IF S = {} THEN {<<>>}
             ELSE UNION {{<<x>> \o t : t \in Orders(S \ {x})} : x \in S}

Range(s) == {s[i] : i \in DOMAIN s}

\* Iteration order of a HashMap with the keys ids: the keys as they come in
\* the preference order pref, keys outside pref last.
IterOrder(ids, pref) ==
    SelectSeq(pref, LAMBDA x : x \in ids) \o SetToSeq(ids \ Range(pref))

\* Kernel::compute_entropy_gradients()
ComputeEntropyGradients(k) ==
    [k EXCEPT !.global_entropy = @ + MIN_ENTROPY_DELTA * Cardinality(DOMAIN k.universes)]

\* redistribute_energy, second loop: momentum from the energy gradient, and
\* the transfers above ENERGY_EPSILON as <<source, target, amount, id>>.
RECURSIVE CollectTransfers(_, _, _)
CollectTransfers(k, ids, transfers) ==
    IF ids = <<>> THEN [k |-> k, transfers |-> transfers]
    ELSE LET i == k.interactions[Head(ids)] IN
         IF IsActive(i) /\ i.source \in DOMAIN k.universes /\ i.target \in DOMAIN k.universes
         THEN LET j == SetMomentum(i, k.universes[i.source].energy, k.universes[i.target].energy)
                  transfer == CalculateEnergyTransfer(j, SCALE \div 100)
              IN  CollectTransfers([k EXCEPT !.interactions[i.id] = j], Tail(ids),
                                   IF Abs(transfer) > ENERGY_EPSILON
                                   THEN Append(transfers, <<i.source, i.target, transfer, i.id>>)
                                   ELSE transfers)
         ELSE CollectTransfers(k, Tail(ids), transfers)

\* redistribute_energy, third loop: a failed transfer_energy is ignored.
RECURSIVE ApplyTransfers(_, _)
ApplyTransfers(k, transfers) ==
    IF transfers = <<>> THEN k
    ELSE LET t == Head(transfers)
             amount == t[3]
             k1 == IF t[1] \in DOMAIN k.universes
                   THEN [k EXCEPT !.universes[t[1]] = TransferEnergy(@, -amount).u] ELSE k
             k2 == IF t[2] \in DOMAIN k1.universes
                   THEN [k1 EXCEPT !.universes[t[2]] = TransferEnergy(@, amount).u] ELSE k1
             k3 == IF t[4] \in DOMAIN k2.interactions
                   THEN [k2 EXCEPT !.interactions[t[4]] = RecordTransfer(@, amount)] ELSE k2
         IN  ApplyTransfers(k3, Tail(transfers))

\* Kernel::redistribute_energy()
RedistributeEnergy(k, pref) ==
    LET decayed == [k EXCEPT !.interactions = [i \in DOMAIN @ |-> ApplyDecay(@[i])]]
        c == CollectTransfers(decayed, IterOrder(DOMAIN decayed.interactions, pref), <<>>)
    IN  ApplyTransfers(c.k, c.transfers)

\* propagate_events, first loop: every interaction's arrivals.
RECURSIVE ProcessAll(_, _, _)
ProcessAll(k, ids, delivered) ==
    IF ids = <<>> THEN [k |-> k, delivered |-> delivered]
    ELSE LET r == ProcessEvents(k.interactions[Head(ids)])
         IN  ProcessAll([k EXCEPT !.interactions[Head(ids)] = r.i], Tail(ids),
                        delivered \o r.arrived)

\* What the delivery of event did, turning the kernel k into k1 (observation).
Arrival(k, k1, event) ==
    [gid |-> event.gid,
     pushed_step |-> event.pushed_step,
     step |-> k.evolution_step,
     target_exists |-> event.target \in DOMAIN k.universes,
     energy_payload |-> event.energy_payload,
     credited |-> IF event.target \in DOMAIN k.universes
                  THEN k1.universes[event.target].energy - k.universes[event.target].energy
                  ELSE 0]

\* The delivery loop without the credit to the target.
RECURSIVE DeliverAllNoCredit(_, _)
DeliverAllNoCredit(k, delivered) ==
    IF delivered = <<>> THEN k
    ELSE DeliverAllNoCredit(
             [k EXCEPT !.arrivals = Append(@, Arrival(k, k, Head(delivered))),
                       !.delivered = @ \cup {Head(delivered).gid},
                       !.redelivered = @ \cup ({Head(delivered).gid} \cap k.delivered)],
             Tail(delivered))

\* propagate_events, second loop: the payload goes to a target that exists.
RECURSIVE DeliverAll(_, _)
DeliverAll(k, delivered) ==
    IF delivered = <<>> THEN k
    ELSE LET event == Head(delivered)
             k1 == IF event.target \in DOMAIN k.universes
                   THEN [k EXCEPT !.universes[event.target].energy = @ + event.energy_payload]
                   ELSE k
         IN  DeliverAll([k1 EXCEPT !.arrivals = Append(@, Arrival(k, k1, event)),
                                   !.delivered = @ \cup {event.gid},
                                   !.redelivered = @ \cup ({event.gid} \cap k.delivered)],
                        Tail(delivered))

\* The events still queued on the interactions of k.
Queued(k) ==
    UNION {Range(k.interactions[i].forward_events) \cup Range(k.interactions[i].backward_events)
           : i \in DOMAIN k.interactions}

\* Kernel::propagate_events().  The observation fields record what this
\* tick delivered (arrivals), what it left queued (leftover), and empty the
\* record of pushes awaiting their tick.
PropagateEvents(k, pref) ==
    LET p  == ProcessAll(k, IterOrder(DOMAIN k.interactions, pref), <<>>)
        k1 == DeliverAll([p.k EXCEPT !.arrivals = <<>>], p.delivered)
    IN  [k1 EXCEPT !.leftover = {e.gid : e \in Queued(p.k)},
                   !.awaiting = {}]

\* GravityScheduler::calculate_priority(u, pressure)
CalculatePriority(u, pressure) ==
    LET stability_factor == u.stability_score
        efficiency_factor == FDiv(SCALE, SCALE + u.entropy \div 100)
        resistance == InternalResistance(u)
        flow_factor == IF resistance > 1 THEN FDiv(pressure, resistance) ELSE pressure
    IN  Max(FMul(FMul(stability_factor, efficiency_factor), flow_factor), 0)

\* GravityScheduler::schedule + next_tasks(universes.len()): the tasks above
\* the threshold, highest priority first; the heap breaks ties by the
\* preference order tie.
RECURSIVE PopAll(_, _, _)
PopAll(tasks, priority, tie) ==
    IF tasks = {} THEN <<>>
    ELSE LET best == {t \in tasks : \A o \in tasks : priority[o] <= priority[t]}
             first == Head(IterOrder(best, tie))
         IN  <<first>> \o PopAll(tasks \ {first}, priority, tie)

Priorities(k) ==
    [id \in DOMAIN k.universes |->
        CalculatePriority(k.universes[id], CalculateInteractionPressure(k, id))]

\* A scheduler that queues every universe, whatever its priority.
NextTasksUnfiltered(k, tie) == PopAll(DOMAIN k.universes, Priorities(k), tie)

NextTasks(k, tie) ==
    LET priority == Priorities(k)
    IN  PopAll({id \in DOMAIN k.universes : priority[id] > 1}, priority, tie)

\* An index past the end of event.data (data.raw()[n]) aborts the process.
Panic(k) == [ok |-> FALSE, k |-> [k EXCEPT !.panicked = TRUE]]

\* state_vector.raw_mut()[dest_addr] = val when dest_addr is inside the vector.
Poke(k, id, dest_addr, val) ==
    IF id \in DOMAIN k.universes /\ dest_addr < Len(k.universes[id].state_vector.data)
    THEN [k EXCEPT !.universes[id].state_vector.data[dest_addr + 1] = val]
    ELSE k

\* route_event, Entangle arm
RouteEntangle(k, event) ==
    IF event.data = <<>> THEN Panic(k)
    ELSE LET strength == (event.data[1] * SCALE) \div 255
             c == CreateInteraction(k, event.source, event.target, strength)
         IN  [ok |-> TRUE, k |-> [c.k EXCEPT !.global_energy = @ + event.energy_payload]]

\* route_event, Observation arm
RouteObservation(k, event) ==
    IF event.target \in DOMAIN k.universes
    THEN IF Len(event.data) < 2 THEN Panic(k)
         ELSE LET target == k.universes[event.target]
                  meta_type == event.data[1]
                  val == CASE meta_type = 0 -> AsU8(target.energy \div 10)
                           [] meta_type = 1 -> AsU8(target.entropy \div 10)
                           [] meta_type = 2 -> AsU8(target.stability_score * 255)
                           [] OTHER -> 0
                  k1 == Poke(k, event.source, event.data[2], val)
              IN  [ok |-> TRUE, k |-> [k1 EXCEPT !.global_energy = @ + event.energy_payload]]
    ELSE [ok |-> TRUE, k |-> [k EXCEPT !.global_energy = @ + event.energy_payload]]

\* route_event, Reversion arm
RouteReversion(k, event) ==
    IF event.data = <<>> THEN Panic(k)
    ELSE LET r == Rewind(k, event.data[1])
         IN  [ok |-> TRUE, k |-> [r.k EXCEPT !.global_energy = @ + event.energy_payload]]

\* route_event, Branch arm
RouteBranch(k, event) ==
    IF event.data = <<>> THEN Panic(k)
    ELSE LET energy == event.energy_payload
             b == BranchUniverse(k, event.source)
         IN  IF b.ok
             THEN LET k1 == IF energy > 0 THEN InjectEnergy(b.k, b.new_id, energy).k ELSE b.k
                  IN  [ok |-> TRUE, k |-> Poke(k1, event.source, event.data[1], b.new_id % 256)]
             ELSE [ok |-> TRUE, k |-> [k EXCEPT !.global_energy = @ + energy]]

\* route_event, local and remote targets.  A pushed event is stamped with a
\* serial number and the step of its push (observation fields).
RouteSignal(k, event, pref) ==
    IF event.target \in DOMAIN k.universes
    THEN LET found == SelectSeq(IterOrder(DOMAIN k.interactions, pref),
                 LAMBDA i : \/ /\ k.interactions[i].source = event.source
                               /\ k.interactions[i].target = event.target
                            \/ /\ k.interactions[i].source = event.target
                               /\ k.interactions[i].target = event.source)
         IN  IF found # <<>>
             THEN LET id == Head(found)
                      stamped == [id |-> event.id, event_type |-> event.event_type,
                                  source |-> event.source, target |-> event.target,
                                  energy_payload |-> event.energy_payload,
                                  data |-> event.data, creation_step |-> event.creation_step,
                                  gid |-> k.pushes + 1, pushed_step |-> k.evolution_step]
                      r == PushEvent(k.interactions[id], stamped)
                  IN  IF r.ok
                      THEN [ok |-> TRUE,
                            k |-> [k EXCEPT !.interactions[id] = r.i,
                                            !.pushes = @ + 1,
                                            !.sent = @ \cup {[gid |-> stamped.gid,
                                                              interaction |-> id,
                                                              target |-> event.target]},
                                            !.awaiting = @ \cup {[gid |-> stamped.gid,
                                                                  interaction |-> id,
                                                                  pushed_step |-> k.evolution_step]}]]
                      ELSE [ok |-> FALSE, k |-> k]
             ELSE [ok |-> TRUE, k |-> [k EXCEPT !.spontaneous = @ + 1]]
    ELSE [ok |-> TRUE,
          k |-> [k EXCEPT !.energy_radiated = @ + event.energy_payload,
                          !.handled = @ + k.drivers]]

\* Kernel::route_event(event)
RouteEvent(k, event, pref) ==
    CASE event.event_type = "Entangle"    -> RouteEntangle(k, event)
      [] event.event_type = "Observation" -> RouteObservation(k, event)
      [] event.event_type = "Reversion"   -> RouteReversion(k, event)
      [] event.event_type = "Branch"      -> RouteBranch(k, event)
      [] OTHER                            -> RouteSignal(k, event, pref)

\* Kernel::spawn_event(source, target, event_type, data, energy)
SpawnEvent(k, source, target, event_type, data, energy, pref) ==
    LET debit == IF source \in DOMAIN k.universes
                 THEN TransferEnergy(k.universes[source], -energy)
                 ELSE [ok |-> TRUE, u |-> 0]
    IN  IF ~debit.ok
        THEN [ok |-> FALSE,
              k |-> [k EXCEPT !.universes[source] = debit.u]]
        ELSE LET k1 == IF source \in DOMAIN k.universes
                       THEN [k EXCEPT !.universes[source] = debit.u] ELSE k
                 event == [id |-> k.next_event_id,
                           event_type |-> event_type,
                           source |-> source,
                           target |-> target,
                           energy_payload |-> energy,
                           data |-> data,
                           creation_step |-> k.evolution_step]
             IN  RouteEvent([k1 EXCEPT !.next_event_id = @ + 1], event, pref)

\* evolve_universes, the end of the update loop's body: the step's cost goes
\* to the pool and its event to generated_events.  e is the loop's state.
Collected(e, id, x) ==
    [k |-> [e.k EXCEPT !.universes[id] = x.u,
                       !.global_energy = @ + x.cost],
     generated_events |-> IF x.event = NoEvent THEN e.generated_events
                          ELSE Append(e.generated_events, x.event)]

\* evolve_universes, the body of the update loop for one task.
EvolveOne(e, id, rate) ==
    IF id \notin DOMAIN e.k.universes THEN e
    ELSE LET advanced == AdvanceTime(e.k.universes[id])
             heated   == IncreaseEntropy(advanced, rate \div 10).u
             rescored == UpdateStability(heated)
         IN  Collected(e, id,
                 ExecuteStep([rescored EXCEPT !.last_evolution = e.k.evolution_step]))

RECURSIVE EvolveAll(_, _, _)
EvolveAll(e, updates, rate) ==
    IF updates = <<>> THEN e
    ELSE EvolveAll(EvolveOne(e, Head(updates), rate[Head(updates)]), Tail(updates), rate)

\* Routes the events in order; a panic ends the routing.
RECURSIVE RouteAll(_, _, _)
RouteAll(k, events, pref) ==
    IF events = <<>> \/ k.panicked THEN k
    ELSE RouteAll(RouteEvent(k, Head(events), pref).k, Tail(events), pref)

\* Kernel::evolve_universes()
RouteGenerated(e, pref) == RouteAll(e.k, e.generated_events, pref)

EvolveUniverses(k, tie, pref) ==
    RouteGenerated(EvolveAll([k |-> k, generated_events |-> <<>>],
                             NextTasks(k, tie), Priorities(k)), pref)

RECURSIVE CollapseAll(_, _)
CollapseAll(k, ids) ==
    IF ids = <<>> THEN k
    ELSE CollapseAll(CollapseUniverse(k, Head(ids)).k, Tail(ids))

\* Kernel::collapse_unstable_universes()
CollapseUnstableUniverses(k) ==
    CollapseAll(k, SetToSeq({id \in DOMAIN k.universes :
                                k.universes[id].stability_score < STABILITY_THRESHOLD}))

\* detect_anomalies without its negative-energy check.
DetectAnomaliesStabilityOnly(k) ==
    {id \in DOMAIN k.universes : k.universes[id].stability_score > SCALE}

\* SecurityAuditor::detect_anomalies(kernel): the universes reported.
DetectAnomalies(k) ==
    {id \in DOMAIN k.universes : k.universes[id].energy < 0}
    \cup {id \in DOMAIN k.universes : k.universes[id].stability_score > SCALE}

\* evolution_step, the incoming events of the drivers' sync.
RECURSIVE Materialize(_, _, _)
Materialize(k, incoming_events, pref) ==
    IF incoming_events = <<>> \/ k.panicked THEN k
    ELSE LET event == Head(incoming_events)
             k1 == [k EXCEPT !.energy_materialized = @ + event.energy_payload]
         IN  Materialize(RouteEvent(k1, event, pref).k, Tail(incoming_events), pref)

\* The entries detect_anomalies pushes for one reported universe: one for
\* negative energy, one for a stability above 1.0.
Reports(k, id) ==
    (IF k.universes[id].energy < 0 THEN <<id>> ELSE <<>>)
    \o (IF k.universes[id].stability_score > SCALE THEN <<id>> ELSE <<>>)

\* The Vec detect_anomalies returns, a universe flagged twice listed twice.
RECURSIVE AnomalyList(_, _)
AnomalyList(k, ids) ==
    IF ids = <<>> THEN <<>>
    ELSE Reports(k, Head(ids)) \o AnomalyList(k, Tail(ids))

\* An audit that collapses the first reported universe only.
AuditFirstOnly(k) ==
    [CollapseAll(k, IF DetectAnomalies(k) = {} THEN <<>>
                    ELSE <<Head(AnomalyList(k, SetToSeq(DetectAnomalies(k))))>>)
        EXCEPT !.audited = DetectAnomalies(k)]

\* evolution_step, security audit: collapse_universe is called for every
\* entry of the list, and its Err for a universe already removed is dropped.
Audit(k) ==
    [CollapseAll(k, AnomalyList(k, SetToSeq(DetectAnomalies(k))))
        EXCEPT !.audited = DetectAnomalies(k)]

\* Kernel::evolution_step().  incoming_events is what the drivers' sync
\* hands over; a panic while routing leaves the state of the abort.
AuditUnlessPanicked(k) == IF k.panicked THEN k ELSE Audit(k)

\* evolution_step from collapse_unstable_universes on.
OpenAudit(k, incoming_events, pref) ==
    IF k.panicked THEN k
    ELSE Materialize(CaptureSnapshot(CollapseUnstableUniverses(k)), incoming_events, pref)

CloseStep(k, incoming_events, pref) ==
    AuditUnlessPanicked(OpenAudit(k, incoming_events, pref))

\* evolution_step up to evolve_universes: the kernel the scheduler sees.
Propagated(k, pref) ==
    LET started      == [k EXCEPT !.evolution_step = @ + 1, !.audited = {}]
        graded       == ComputeEntropyGradients(started)
        redistributed == RedistributeEnergy(graded, pref)
    IN  PropagateEvents(redistributed, pref)

\* evolution_step up to and including evolve_universes.
Evolved(k, tie, pref) == EvolveUniverses(Propagated(k, pref), tie, pref)

\* evolution_step up to the security audit: the kernel the auditor sees.
BeforeAudit(k, incoming_events, tie, pref) ==
    OpenAudit(Evolved(k, tie, pref), incoming_events, pref)

EvolutionStep(k, incoming_events, tie, pref) ==
    CloseStep(Evolved(k, tie, pref), incoming_events, pref)

\* ------------------------------------------------------------------------
\* InteractionField (interaction/field.rs): adjacency index and path search
\* ------------------------------------------------------------------------

\* InteractionField::new()
FieldNew == [adjacency |-> <<>>, interactions |-> <<>>]

\* adjacency.entry(universe_id).or_default()
Links(adjacency, universe_id) ==
    IF universe_id \in DOMAIN adjacency THEN adjacency[universe_id] ELSE <<>>

\* adjacency.entry(universe_id).or_default().push((id, other))
PushLink(adjacency, universe_id, id, other) ==
    Insert(adjacency, universe_id, Append(Links(adjacency, universe_id), <<id, other>>))

\* A registration that indexes the interaction at its source only.
RegisterInteractionOneWay(f, id, source, target) ==
    [adjacency |-> PushLink(f.adjacency, source, id, target),
     interactions |-> Insert(f.interactions, id, <<source, target>>)]

\* InteractionField::register_interaction(id, source, target)
RegisterInteraction(f, id, source, target) ==
    [adjacency |-> PushLink(PushLink(f.adjacency, source, id, target), target, id, source),
     interactions |-> Insert(f.interactions, id, <<source, target>>)]

\* links.retain(|(i, _)| *i != id) on the list of universe_id, if it has one.
RetainOthers(adjacency, universe_id, id) ==
    IF universe_id \in DOMAIN adjacency
    THEN [adjacency EXCEPT ![universe_id] = SelectSeq(@, LAMBDA link : link[1] # id)]
    ELSE adjacency

\* InteractionField::unregister_interaction(id)
UnregisterInteraction(f, id) ==
    IF id \notin DOMAIN f.interactions THEN f
    ELSE [adjacency |-> RetainOthers(RetainOthers(f.adjacency, f.interactions[id][1], id),
                                     f.interactions[id][2], id),
          interactions |-> Without(f.interactions, {id})]

\* find_path's loop over the neighbors of the universe taken from the queue:
\* every neighbor not yet visited is marked and queued with the path to it.
RECURSIVE VisitNeighbors(_, _, _)
VisitNeighbors(neighbors, path, s) ==
    IF neighbors = <<>> THEN s
    ELSE IF Head(neighbors)[2] \in s.visited
         THEN VisitNeighbors(Tail(neighbors), path, s)
         ELSE VisitNeighbors(Tail(neighbors), path,
                             [queue |-> Append(s.queue, [current |-> Head(neighbors)[2],
                                                         path |-> Append(path, Head(neighbors)[1])]),
                              visited |-> s.visited \cup {Head(neighbors)[2]}])

\* find_path's while loop: found = FALSE is None.
RECURSIVE SearchPath(_, _, _)
SearchPath(f, s, end) ==
    IF s.queue = <<>> THEN [found |-> FALSE, path |-> <<>>]
    ELSE IF Head(s.queue).current = end THEN [found |-> TRUE, path |-> Head(s.queue).path]
    ELSE SearchPath(f,
                    VisitNeighbors(Links(f.adjacency, Head(s.queue).current),
                                   Head(s.queue).path,
                                   [queue |-> Tail(s.queue), visited |-> s.visited]),
                    end)

\* InteractionField::find_path(start, end)
FindPath(f, start, end) ==
    IF start = end THEN [found |-> TRUE, path |-> <<>>]
    ELSE SearchPath(f, [queue |-> <<[current |-> start, path |-> <<>>]>>,
                        visited |-> {start}], end)

\* ------------------------------------------------------------------------
\* GravityScheduler's task queue (scheduler.rs): a BinaryHeap of CausalTask,
\* ordered by priority alone.  Positions are 0-based as in the heap's Vec.
\* ------------------------------------------------------------------------

\* data with the entries at positions i and j exchanged.
HeapSwap(data, i, j) ==
    [data EXCEPT ![i + 1] = data[j + 1], ![j + 1] = data[i + 1]]

\* BinaryHeap::sift_up(start, pos): the entry at pos rises while it is
\* greater than its parent.
RECURSIVE SiftUp(_, _, _)
SiftUp(data, start, pos) ==
    IF pos <= start THEN data
    ELSE IF data[pos + 1].priority <= data[(pos - 1) \div 2 + 1].priority THEN data
    ELSE SiftUp(HeapSwap(data, pos, (pos - 1) \div 2), start, (pos - 1) \div 2)

\* The child the hole at pos moves to: the right one unless the left one is
\* greater.
GreaterChild(data, child) ==
    IF data[child + 1].priority <= data[child + 2].priority THEN child + 1 ELSE child

\* BinaryHeap::sift_down_to_bottom: the hole sinks to a leaf along the
\* greater children; the result is the data and the hole's last position.
RECURSIVE SinkHole(_, _)
SinkHole(data, pos) ==
    IF 2 * pos + 1 <= Max(Len(data) - 2, 0)
    THEN SinkHole(HeapSwap(data, pos, GreaterChild(data, 2 * pos + 1)),
                  GreaterChild(data, 2 * pos + 1))
    ELSE IF 2 * pos + 1 = Len(data) - 1
    THEN [data |-> HeapSwap(data, pos, 2 * pos + 1), pos |-> 2 * pos + 1]
    ELSE [data |-> data, pos |-> pos]

SiftDownToBottom(data) == SiftUp(SinkHole(data, 0).data, 0, SinkHole(data, 0).pos)

\* BinaryHeap::push(task)
HeapPush(data, task) == SiftUp(Append(data, task), 0, Len(data))

\* BinaryHeap::pop() on a queue that is not empty: the root is returned, the
\* last entry takes its place and is sifted down.
HeapPop(data) ==
    IF Len(data) = 1 THEN [task |-> data[1], data |-> <<>>]
    ELSE [task |-> data[1],
          data |-> SiftDownToBottom([SubSeq(data, 1, Len(data) - 1)
                                        EXCEPT ![1] = data[Len(data)]])]

\* One iteration of schedule()'s loop: the universe is queued when its
\* priority is above 0.0001.
SchedulePush(s) ==
    [s EXCEPT !.pending = Tail(@),
              !.task_queue = IF Head(s.pending).priority > 1
                             THEN HeapPush(@, Head(s.pending)) ELSE @]

\* One iteration of next_tasks()'s loop.
SchedulePop(s) ==
    [s EXCEPT !.task_queue = HeapPop(s.task_queue).data,
              !.tasks = Append(@, HeapPop(s.task_queue).task)]

\* schedule(universes, pressures) about to start: the universes in the
\* order the map yields them, each with its priority.
SchedStart(priorities) ==
    [universes |-> [i \in DOMAIN priorities |-> [id |-> i, priority |-> priorities[i]]],
     pending |-> [i \in DOMAIN priorities |-> [id |-> i, priority |-> priorities[i]]],
     count |-> Len(priorities),
     task_queue |-> <<>>,
     tasks |-> <<>>]

\* ------------------------------------------------------------------------
\* Assembler (compiler/assembler.rs).  Text is a sequence of character codes,
\* a source a sequence of lines (what str::lines() yields).
\* ------------------------------------------------------------------------

\* The ASCII characters char::is_whitespace accepts inside a line.
AsmWhitespace == {9, 11, 12, 13, 32}

RECURSIVE SkipWs(_)
SkipWs(s) == IF s # <<>> /\ Head(s) \in AsmWhitespace THEN SkipWs(Tail(s))
             ELSE s

RECURSIVE TrimEnd(_)
TrimEnd(s) == IF s # <<>> /\ s[Len(s)] \in AsmWhitespace
              THEN TrimEnd(SubSeq(s, 1, Len(s) - 1))
              ELSE s

\* str::trim()
Trim(s) == TrimEnd(SkipWs(s))

\* Positions of the whitespace characters of s.
WsAt(s) == {i \in DOMAIN s : s[i] \in AsmWhitespace}

\* Length of the run of non-whitespace characters s starts with.
TokLen(s) == IF WsAt(s) = {} THEN Len(s)
             ELSE (CHOOSE i \in WsAt(s) : \A j \in WsAt(s) : i <= j) - 1

\* str::split_whitespace().collect()
RECURSIVE SplitWhitespace(_)
RECURSIVE SplitToken(_, _)
SplitToken(t, n) == IF t = <<>> THEN <<>>
                    ELSE <<SubSeq(t, 1, n)>>
                         \o SplitWhitespace(SubSeq(t, n + 1, Len(t)))

SplitWhitespace(s) == SplitToken(SkipWs(s), TokLen(SkipWs(s)))

\* str::starts_with(p)
StartsWith(s, p) == Len(s) >= Len(p) /\ SubSeq(s, 1, Len(p)) = p

\* str::ends_with(c) for one character.
EndsWith(s, c) == s # <<>> /\ s[Len(s)] = c

\* str::to_uppercase() on ASCII text.
ToUppercase(s) == [i \in DOMAIN s |-> IF s[i] \in 97..122 THEN s[i] - 32
                                      ELSE s[i]]

\* Position of the first c in s at or after position from, 0 when none.
RECURSIVE FirstAt(_, _, _)
FirstAt(s, c, from) == IF from > Len(s) THEN 0
                       ELSE IF s[from] = c THEN from
                       ELSE FirstAt(s, c, from + 1)

AfterSecond(s, i) == IF i = 0 THEN <<>> ELSE SubSeq(s, i + 1, Len(s))

AfterFirst(s, i) == IF i = 0 THEN <<>> ELSE AfterSecond(s, FirstAt(s, 32, i + 1))

\* trimmed.splitn(3, ' ').nth(2).unwrap_or(""): what follows the second
\* single space of the line, empty when the line has fewer than two spaces.
SplitN3Rest(s) == AfterFirst(s, FirstAt(s, 32, 1))

\* Value of a run of decimal digits.
RECURSIVE Decimal(_)
Decimal(s) == IF s = <<>> THEN 0
              ELSE 10 * Decimal(SubSeq(s, 1, Len(s) - 1)) + (s[Len(s)] - 48)

\* Leading zeros do not count toward the value.
RECURSIVE SkipZeros(_)
SkipZeros(d) == IF Len(d) > 1 /\ Head(d) = 48 THEN SkipZeros(Tail(d)) ELSE d

ParseDigits(d) ==
    IF d = <<>> \/ (\E i \in DOMAIN d : d[i] \notin 48..57) THEN [ok |-> FALSE, val |-> 0]
    ELSE IF Len(SkipZeros(d)) > 3 \/ Decimal(SkipZeros(d)) > 255 THEN [ok |-> FALSE, val |-> 0]
    ELSE [ok |-> TRUE, val |-> Decimal(SkipZeros(d))]

\* str::parse::<u8>(): an optional '+', then digits whose value fits a byte.
ParseU8(s) == IF s # <<>> /\ Head(s) = 43 THEN ParseDigits(Tail(s))
              ELSE ParseDigits(s)
\* The mnemonics the two passes match on, after to_uppercase().
MnNop == <<78, 79, 80>>   \* "NOP"

MnRet == <<82, 69, 84>>   \* "RET"

MnHalt == <<72, 65, 76, 84>>   \* "HALT"

MnPush == <<80, 85, 83, 72>>   \* "PUSH"

MnPop == <<80, 79, 80>>   \* "POP"

MnJump == <<74, 85, 77, 80>>   \* "JUMP"

MnJmp == <<74, 77, 80>>   \* "JMP"

MnCall == <<67, 65, 76, 76>>   \* "CALL"

MnSet == <<83, 69, 84>>   \* "SET"

MnXor == <<88, 79, 82>>   \* "XOR"

MnAdd == <<65, 68, 68>>   \* "ADD"

MnSub == <<83, 85, 66>>   \* "SUB"

MnJumpif == <<74, 85, 77, 80, 73, 70>>   \* "JUMPIF"

MnJif == <<74, 73, 70>>   \* "JIF"

MnJnz == <<74, 78, 90>>   \* "JNZ"

MnCopy == <<67, 79, 80, 89>>   \* "COPY"

MnCmp == <<67, 77, 80>>   \* "CMP"

MnSignal == <<83, 73, 71, 78, 65, 76>>   \* "SIGNAL"

\* Mnemonics of the ISA table (isa.rs) that no arm of either pass matches.
MnEntangle == <<69, 78, 84, 65, 78, 71, 76, 69>>   \* "ENTANGLE"

MnObserve == <<79, 66, 83, 69, 82, 86, 69>>   \* "OBSERVE"

MnRevert == <<82, 69, 86, 69, 82, 84>>   \* "REVERT"

MnBranch == <<66, 82, 65, 78, 67, 72>>   \* "BRANCH"

\* The state of one assemble(source) call: the pass and line it is at, the
\* two symbol tables, byte_offset, the bytecode so far, and how it ended
\* ("ok" and "err" are the Result, "panic" an unwinding panic).  build is the
\* profile the crate was compiled with.
AsmStart(source, build) ==
    [source |-> source, build |-> build, pass |-> 1, line |-> 1,
     labels |-> <<>>, definitions |-> <<>>, byte_offset |-> 0,
     bytecode |-> <<>>, result |-> "running"]

AsmErr(a) == [a EXCEPT !.result = "err"]

AsmPanic(a) == [a EXCEPT !.result = "panic"]

\* The skip test both passes start with.
IsBlankOrComment(trimmed) ==
    \/ trimmed = <<>>
    \/ StartsWith(trimmed, <<35>>)
    \/ StartsWith(trimmed, <<47, 47>>)

\* starts_with(".def")
IsDef(trimmed) == StartsWith(trimmed, <<46, 100, 101, 102>>)

\* starts_with('"') && ends_with('"')
IsQuoted(rest) == StartsWith(rest, <<34>>) /\ EndsWith(rest, 34)

\* Pass 1, a .def line: name and value are the second and third word.
Pass1Def(a, parts) ==
    IF Len(parts) < 3 THEN AsmErr(a)
    ELSE IF ~ParseU8(parts[3]).ok THEN AsmErr(a)
    ELSE [a EXCEPT !.definitions = Insert(@, parts[2], ParseU8(parts[3]).val)]

\* Pass 1, SIGNAL: 3 + payload_len.  rest.len() - 2 underflows on a rest of
\* one quote character: a panic with overflow checks, and without them the
\* wrapped sum 3 + (rest.len() - 2) is again rest.len() + 1.
Pass1Signal(a, rest) ==
    IF IsQuoted(rest)
    THEN IF Len(rest) < 2 /\ a.build = "debug" THEN AsmPanic(a)
         ELSE [a EXCEPT !.byte_offset = @ + Len(rest) + 1]
    ELSE [a EXCEPT !.byte_offset = @ + 3 + Len(rest)]

\* Pass 1, an instruction line: byte_offset grows by the instruction's size.
Pass1Op(a, trimmed, m) ==
    IF m \in {MnNop, MnRet, MnHalt} THEN [a EXCEPT !.byte_offset = @ + 1]
    ELSE IF m \in {MnPush, MnPop, MnJump, MnJmp, MnCall}
    THEN [a EXCEPT !.byte_offset = @ + 2]
    ELSE IF m \in {MnSet, MnXor, MnAdd, MnSub, MnJumpif, MnJif, MnJnz}
    THEN [a EXCEPT !.byte_offset = @ + 3]
    ELSE IF m = MnSignal THEN Pass1Signal(a, SplitN3Rest(trimmed))
    ELSE IF m \in {MnCopy, MnCmp} THEN [a EXCEPT !.byte_offset = @ + 4]
    ELSE AsmErr(a)

\* Pass 1 on one line: symbol discovery and offset calculation.
Pass1Trimmed(a, trimmed) ==
    IF IsBlankOrComment(trimmed) THEN a
    ELSE IF IsDef(trimmed) THEN Pass1Def(a, SplitWhitespace(trimmed))
    ELSE IF EndsWith(trimmed, 58)
    THEN [a EXCEPT !.labels =
              Insert(@, SubSeq(trimmed, 1, Len(trimmed) - 1), a.byte_offset)]
    ELSE Pass1Op(a, trimmed, ToUppercase(SplitWhitespace(trimmed)[1]))

Pass1Line(a, line) == Pass1Trimmed(a, Trim(line))

\* resolve_arg: a number, else a definition, else a label's offset cut to a
\* byte by `as u8`.
ResolveArg(a, arg) ==
    IF ParseU8(arg).ok THEN ParseU8(arg)
    ELSE IF arg \in DOMAIN a.definitions
    THEN [ok |-> TRUE, val |-> a.definitions[arg]]
    ELSE IF arg \in DOMAIN a.labels
    THEN [ok |-> TRUE, val |-> a.labels[arg] % 256]
    ELSE [ok |-> FALSE, val |-> 0]

\* bytecode.push(resolve_arg(parts[i])?) for i = from .. to, in that order
\* (parts[i] of the code is parts[i + 1] here): a missing word is an index
\* panic, an unknown symbol the Err.
RECURSIVE EmitArgs(_, _, _, _)
EmitArgs(a, parts, from, to) ==
    IF from > to THEN a
    ELSE IF Len(parts) < from + 1 THEN AsmPanic(a)
    ELSE IF ~ResolveArg(a, parts[from + 1]).ok THEN AsmErr(a)
    ELSE EmitArgs([a EXCEPT !.bytecode =
                       Append(@, ResolveArg(a, parts[from + 1]).val)],
                  parts, from + 1, to)

\* bytecode.push(opcode), then the n arguments.
EmitOp(a, opcode, parts, n) ==
    EmitArgs([a EXCEPT !.bytecode = Append(@, opcode)], parts, 1, n)

\* The payload bytes of a SIGNAL line; slicing rest[1 .. len - 1] panics on a
\* rest of one quote character.
EmitPayload(a, rest) ==
    IF a.result # "running" THEN a
    ELSE IF IsQuoted(rest) /\ Len(rest) < 2 THEN AsmPanic(a)
    ELSE IF IsQuoted(rest) /\ Len(rest) - 2 > 255 THEN AsmErr(a)
    ELSE IF IsQuoted(rest)
    THEN [a EXCEPT !.bytecode =
              (@ \o <<Len(rest) - 2>>) \o SubSeq(rest, 2, Len(rest) - 1)]
    ELSE IF Len(rest) > 255 THEN AsmErr(a)
    ELSE [a EXCEPT !.bytecode = (@ \o <<Len(rest)>>) \o rest]

\* Pass 2, SIGNAL: opcode, target, payload length, payload.
Pass2Signal(a, trimmed, parts) ==
    EmitPayload(EmitOp(a, 240, parts, 1), SplitN3Rest(trimmed))

\* Pass 2, an instruction line: opcode byte (isa.rs OpCode) and operands.
Pass2Op(a, trimmed, parts, m) ==
    CASE m = MnNop -> EmitOp(a, 0, parts, 0)
      [] m = MnSet -> EmitOp(a, 1, parts, 2)
      [] m = MnXor -> EmitOp(a, 2, parts, 2)
      [] m = MnCopy -> EmitOp(a, 3, parts, 3)
      [] m = MnAdd -> EmitOp(a, 4, parts, 2)
      [] m = MnSub -> EmitOp(a, 5, parts, 2)
      [] m = MnCmp -> EmitOp(a, 6, parts, 3)
      [] m \in {MnJump, MnJmp} -> EmitOp(a, 16, parts, 1)
      [] m \in {MnJumpif, MnJif, MnJnz} -> EmitOp(a, 17, parts, 2)
      [] m = MnCall -> EmitOp(a, 32, parts, 1)
      [] m = MnRet -> EmitOp(a, 33, parts, 0)
      [] m = MnPush -> EmitOp(a, 34, parts, 1)
      [] m = MnPop -> EmitOp(a, 35, parts, 1)
      [] m = MnSignal -> Pass2Signal(a, trimmed, parts)
      [] m = MnHalt -> EmitOp(a, 255, parts, 0)
      [] OTHER -> a

\* Pass 2 on one line: code generation.
Pass2Trimmed(a, trimmed) ==
    IF IsBlankOrComment(trimmed) \/ IsDef(trimmed) \/ EndsWith(trimmed, 58)
    THEN a
    ELSE Pass2Op(a, trimmed, SplitWhitespace(trimmed),
                 ToUppercase(SplitWhitespace(trimmed)[1]))

Pass2Line(a, line) == Pass2Trimmed(a, Trim(line))

\* One iteration of the loop the call is in; a pass that ran out of lines
\* hands over to the next pass, or returns Ok(bytecode).
NextLine(a) == IF a.result = "running" THEN [a EXCEPT !.line = @ + 1] ELSE a

AsmAdvance(a) ==
    IF a.line <= Len(a.source)
    THEN IF a.pass = 1 THEN NextLine(Pass1Line(a, a.source[a.line]))
         ELSE NextLine(Pass2Line(a, a.source[a.line]))
    ELSE IF a.pass = 1 THEN [a EXCEPT !.pass = 2, !.line = 1]
    ELSE [a EXCEPT !.result = "ok"]

\* assemble(source), run to its end.
RECURSIVE AsmRun(_)
AsmRun(a) == IF a.result # "running" THEN a ELSE AsmRun(AsmAdvance(a))

Assemble(source, build) == AsmRun(AsmStart(source, build))

\* ------------------------------------------------------------------------
\* Bounds and inputs of the model
\* ------------------------------------------------------------------------

MaxUniverses == 2

MaxInteractions == 2

MaxTicks == 3

MaxDrivers == 1

\* Operations on a kernel that is set up, other than plain ticks: program
\* loads, rewinds, collapses, spawned events, branches, driver deliveries.
MaxExtras == 2

\* Kernel::new(initial_energy) of the runs explored, and the energies spawned.
InitialEnergy == 300 * SCALE

SpawnEnergies == {100 * SCALE, 50 * SCALE}

\* Couplings handed to create_interaction: 0.8, and 1.5 (rejected).
Couplings == {8 * (SCALE \div 10), 15 * (SCALE \div 10)}

\* Bytecode loaded by load_program: SIGNAL to universe 2 with the data
\* "HELLO"; REVERT 30, NOP, REVERT 2; ENTANGLE with universe 2 at strength
\* 200/255; BRANCH with energy 32 and destination address 10.
ProgSignal == <<240, 2, 5, 72, 69, 76, 76, 79, 255>>

ProgRevert == <<243, 30, 0, 243, 2, 255>>

ProgEntangle == <<241, 2, 200, 255>>

ProgBranch == <<244, 32, 10, 255>>

Programs == {ProgSignal, ProgRevert, ProgEntangle, ProgBranch}

\* What the drivers' sync can hand to one tick: nothing, a signal from a
\* remote universe, a signal between two local universes, a Reversion, and
\* a system event whose data is empty.
RemoteEvent(type, source, target, payload, data) ==
    [id |-> 9000, event_type |-> type, source |-> source, target |-> target,
     energy_payload |-> payload, data |-> data, creation_step |-> 0]

DriverInputs ==
    {<<>>,
     <<RemoteEvent("Signal", 900, 1, 5 * SCALE, <<72>>)>>,
     <<RemoteEvent("Signal", 1, 2, 3 * SCALE, <<72>>)>>,
     <<RemoteEvent("Reversion", 900, 0, 0, <<2>>)>>,
     <<RemoteEvent("Entangle", 900, 1, 0, <<>>)>>}

\* ------------------------------------------------------------------------
\* Sources handed to assemble()
\* ------------------------------------------------------------------------

\* The program of the assembler's description.
SrcExample ==
    <<<<83, 69, 84, 32, 49, 48, 48, 32, 52, 50>>,   \* SET 100 42
      <<83, 73, 71, 78, 65, 76, 32, 51, 32, 34, 104, 105, 34>>,   \* SIGNAL 3 "hi"
      <<72, 65, 76, 84>>>>   \* HALT

\* main.rs, the monitor service.
SrcMonitor ==
    <<<<35, 32, 77, 111, 110, 105, 116, 111, 114>>,   \* # Monitor
      <<46, 100, 101, 102, 32, 104, 101, 97, 108, 116, 104, 32, 50, 48, 48>>,   \* .def health 200
      <<46, 100, 101, 102, 32, 99, 104, 101, 99, 107, 115, 32, 50, 48, 49>>,   \* .def checks 201
      <<46, 100, 101, 102, 32, 116, 101, 109, 112, 32, 50, 48, 50>>,   \* .def temp 202
      <<>>,   \* (empty line)
      <<32, 32, 32, 32, 83, 69, 84, 32, 104, 101, 97, 108, 116, 104, 32, 49, 48, 48>>,   \*     SET health 100
      <<32, 32, 32, 32, 83, 69, 84, 32, 99, 104, 101, 99, 107, 115, 32, 48>>,   \*     SET checks 0
      <<>>,   \* (empty line)
      <<32, 32, 32, 32, 109, 111, 110, 105, 116, 111, 114, 95, 108, 111, 111, 112, 58>>,   \*     monitor_loop:
      <<32, 32, 32, 32, 32, 32, 32, 32, 83, 85, 66, 32, 104, 101, 97, 108, 116, 104, 32, 49>>,   \*         SUB health 1
      <<32, 32, 32, 32, 32, 32, 32, 32, 65, 68, 68, 32, 99, 104, 101, 99, 107, 115, 32, 49>>,   \*         ADD checks 1
      <<32, 32, 32, 32, 32, 32, 32, 32, 67, 77, 80, 32, 104, 101, 97, 108, 116, 104, 32, 48, 32, 116, 101, 109, 112>>,   \*         CMP health 0 temp
      <<32, 32, 32, 32, 32, 32, 32, 32, 74, 85, 77, 80, 73, 70, 32, 116, 101, 109, 112, 32, 109, 111, 110, 105, 116, 111, 114, 95, 108, 111, 111, 112>>,   \*         JUMPIF temp monitor_loop
      <<32, 32, 32, 32, 72, 65, 76, 84>>>>   \*     HALT

\* main.rs, the user program, without its comment lines.
SrcUser ==
    <<<<46, 100, 101, 102, 32, 115, 99, 104, 101, 100, 117, 108, 101, 114, 95, 105, 100, 32, 51>>,   \* .def scheduler_id 3
      <<46, 100, 101, 102, 32, 101, 110, 101, 114, 103, 121, 95, 97, 100, 100, 114, 32, 49, 48, 48>>,   \* .def energy_addr 100
      <<46, 100, 101, 102, 32, 116, 104, 114, 101, 115, 104, 111, 108, 100, 32, 53, 48>>,   \* .def threshold 50
      <<46, 100, 101, 102, 32, 105, 115, 95, 108, 111, 119, 32, 49, 48, 49>>,   \* .def is_low 101
      <<109, 97, 105, 110, 58>>,   \* main:
      <<32, 32, 32, 32, 79, 66, 83, 69, 82, 86, 69, 32, 115, 99, 104, 101, 100, 117, 108, 101, 114, 95, 105, 100, 32, 48, 32, 101, 110, 101, 114, 103, 121, 95, 97, 100, 100, 114>>,   \*     OBSERVE scheduler_id 0 energy_addr
      <<32, 32, 32, 32, 67, 77, 80, 32, 101, 110, 101, 114, 103, 121, 95, 97, 100, 100, 114, 32, 116, 104, 114, 101, 115, 104, 111, 108, 100, 32, 105, 115, 95, 108, 111, 119>>,   \*     CMP energy_addr threshold is_low
      <<32, 32, 32, 32, 74, 85, 77, 80, 73, 70, 32, 105, 115, 95, 108, 111, 119, 32, 101, 110, 116, 97, 110, 103, 108, 101, 95, 112, 104, 97, 115, 101>>,   \*     JUMPIF is_low entangle_phase
      <<32, 32, 32, 32, 72, 65, 76, 84>>,   \*     HALT
      <<101, 110, 116, 97, 110, 103, 108, 101, 95, 112, 104, 97, 115, 101, 58>>,   \* entangle_phase:
      <<32, 32, 32, 32, 69, 78, 84, 65, 78, 71, 76, 69, 32, 115, 99, 104, 101, 100, 117, 108, 101, 114, 95, 105, 100, 32, 50, 48, 48>>,   \*     ENTANGLE scheduler_id 200
      <<32, 32, 32, 32, 66, 82, 65, 78, 67, 72, 32, 49, 48, 48, 32, 49, 48, 50>>,   \*     BRANCH 100 102
      <<32, 32, 32, 32, 83, 73, 71, 78, 65, 76, 32, 49, 48, 50, 32, 34, 65, 119, 97, 107, 101, 110, 34>>,   \*     SIGNAL 102 "Awaken"
      <<32, 32, 32, 32, 77, 69, 77, 83, 87, 65, 80, 32, 101, 110, 101, 114, 103, 121, 95, 97, 100, 100, 114>>,   \*     MEMSWAP energy_addr
      <<72, 65, 76, 84>>>>   \* HALT

\* Every mnemonic either pass matches, in mixed case, with labels, a definition and both comment styles.
SrcMixed ==
    <<<<47, 47, 32, 97, 108, 108, 32, 111, 102, 32, 116, 104, 101, 109>>,   \* // all of them
      <<46, 100, 101, 102, 32, 120, 32, 55>>,   \* .def x 7
      <<116, 111, 112, 58>>,   \* top:
      <<110, 111, 112>>,   \* nop
      <<83, 101, 116, 32, 120, 32, 49>>,   \* Set x 1
      <<120, 111, 114, 32, 120, 32, 50, 53, 53>>,   \* xor x 255
      <<67, 111, 112, 121, 32, 120, 32, 56, 32, 49>>,   \* Copy x 8 1
      <<97, 100, 100, 32, 120, 32, 50>>,   \* add x 2
      <<115, 117, 98, 32, 120, 32, 49>>,   \* sub x 1
      <<99, 109, 112, 32, 120, 32, 48, 32, 57>>,   \* cmp x 0 9
      <<106, 117, 109, 112, 32, 116, 111, 112>>,   \* jump top
      <<106, 109, 112, 32, 101, 110, 100>>,   \* jmp end
      <<106, 117, 109, 112, 105, 102, 32, 57, 32, 116, 111, 112>>,   \* jumpif 9 top
      <<106, 105, 102, 32, 57, 32, 101, 110, 100>>,   \* jif 9 end
      <<106, 110, 122, 32, 57, 32, 116, 111, 112>>,   \* jnz 9 top
      <<99, 97, 108, 108, 32, 101, 110, 100>>,   \* call end
      <<112, 117, 115, 104, 32, 120>>,   \* push x
      <<112, 111, 112, 32, 56>>,   \* pop 8
      <<115, 105, 103, 110, 97, 108, 32, 50, 32, 111, 107>>,   \* signal 2 ok
      <<101, 110, 100, 58>>,   \* end:
      <<114, 101, 116>>,   \* ret
      <<104, 97, 108, 116>>>>   \* halt

SrcEntangle ==
    <<<<69, 78, 84, 65, 78, 71, 76, 69, 32, 51, 32, 50, 48, 48>>,   \* ENTANGLE 3 200
      <<72, 65, 76, 84>>>>   \* HALT

SrcObserve ==
    <<<<111, 98, 115, 101, 114, 118, 101, 32, 51, 32, 48, 32, 49, 48, 48>>,   \* observe 3 0 100
      <<72, 65, 76, 84>>>>   \* HALT

SrcRevert ==
    <<<<82, 69, 86, 69, 82, 84, 32, 50>>,   \* REVERT 2
      <<72, 65, 76, 84>>>>   \* HALT

SrcBranch ==
    <<<<66, 114, 97, 110, 99, 104, 32, 49, 48, 48, 32, 49, 48, 50>>,   \* Branch 100 102
      <<72, 65, 76, 84>>>>   \* HALT

SrcUnknownSymbol ==
    <<<<74, 85, 77, 80, 32, 110, 111, 119, 104, 101, 114, 101>>,   \* JUMP nowhere
      <<72, 65, 76, 84>>>>   \* HALT

SrcMissingArg ==
    <<<<83, 69, 84, 32, 49, 48, 48>>,   \* SET 100
      <<72, 65, 76, 84>>>>   \* HALT

SrcBadDef ==
    <<<<46, 100, 101, 102, 32, 120, 32, 50, 53, 54>>,   \* .def x 256
      <<80, 85, 83, 72, 32, 120>>>>   \* PUSH x

SrcShortDef ==
    <<<<46, 100, 101, 102, 32, 120>>,   \* .def x
      <<80, 85, 83, 72, 32, 49>>>>   \* PUSH 1

SrcLoneQuote ==
    <<<<83, 73, 71, 78, 65, 76, 32, 51, 32, 34>>,   \* SIGNAL 3 "
      <<72, 65, 76, 84>>>>   \* HALT

\* Two spaces before the target.
SrcTwoSpaces ==
    <<<<83, 73, 71, 78, 65, 76, 32, 32, 51, 32, 34, 104, 105, 34>>,   \* SIGNAL  3 "hi"
      <<72, 65, 76, 84>>>>   \* HALT

\* A SIGNAL whose unquoted payload fills the program up to byte 255, so that
\* the label behind it stands at offset 256.
SrcFarLabel ==
    <<<<83, 73, 71, 78, 65, 76, 32, 51, 32>> \o [i \in 1..253 |-> 97],   \* SIGNAL 3 aaa...a (253 times)
      <<102, 97, 114, 58>>,   \* far:
      <<74, 85, 77, 80, 32, 102, 97, 114>>,   \* JUMP far
      <<72, 65, 76, 84>>>>   \* HALT

AsmSources == {SrcExample, SrcMonitor, SrcUser, SrcMixed, SrcEntangle, SrcObserve, SrcRevert,
               SrcBranch, SrcUnknownSymbol, SrcMissingArg, SrcBadDef, SrcShortDef, SrcLoneQuote, SrcTwoSpaces, SrcFarLabel}

\* The profiles the crate is built with: overflow checks on, or off.
Builds == {"debug", "release"}

\* ------------------------------------------------------------------------
\* State
\* ------------------------------------------------------------------------

VARIABLES
    kernel,     \* the Kernel object: its fields, and the observation fields
    ticked,     \* the current state is the one a tick left
    used,       \* ticks run and extra operations performed
    tick_end,   \* the kernel as every tick left it, oldest first
    universe,   \* a Universe object driven through its own methods
    snapshot,   \* the UniverseSnapshot taken of it, if any
    trail,      \* what was done to universe: snapshot time, restore, mutations
    vm,         \* memory and instruction pointer of a UniversalProcessor run
    asm,        \* one assemble(source) call: pass, line, tables, bytecode
    sched,      \* one schedule() and next_tasks() call of a GravityScheduler
    field       \* an InteractionField and the next interaction id

vars == <<kernel, ticked, used, tick_end, universe, snapshot, trail, vm, asm, sched, field>>

\* The kernel's run, and the stand-alone universe and processor.
run == <<kernel, ticked, used, tick_end>>

bench == <<universe, snapshot, trail, vm, asm, sched, field>>

\* Kernel::new(initial_energy).  pushes .. audited are observation fields:
\* they record what happened and no operation reads them.
KernelNew(initial_energy) ==
    [global_energy |-> initial_energy,
     global_entropy |-> 0,
     universes |-> <<>>,
     interactions |-> <<>>,
     next_universe_id |-> 1,
     next_interaction_id |-> 1,
     evolution_step |-> 0,
     initial_total_energy |-> initial_energy,
     drivers |-> 0,
     next_event_id |-> 1,
     history |-> <<>>,
     energy_radiated |-> 0,
     energy_materialized |-> 0,
     panicked |-> FALSE,
     pushes |-> 0,
     sent |-> {},
     delivered |-> {},
     redelivered |-> {},
     awaiting |-> {},
     arrivals |-> <<>>,
     leftover |-> {},
     handled |-> 0,
     spontaneous |-> 0,
     rewinds |-> 0,
     audited |-> {}]

NoTrail == [taken |-> FALSE, restored |-> FALSE, mutations |-> 0,
            original |-> UniverseNew(1, 0), before |-> UniverseNew(1, 0)]

IdleVm == [mem |-> <<>>, ip |-> 0, steps |-> 0, before |-> <<>>, before_ip |-> 0,
           fault |-> FALSE]

\* An empty field, the first interaction id still to hand out.
IdleField == [index |-> FieldNew, next_interaction_id |-> 1]

\* No scheduler call under way.
IdleSched == SchedStart(<<>>)

\* No assemble() call under way.
IdleAsm == [AsmStart(<<>>, "release") EXCEPT !.result = "idle"]

KernelInit ==
    /\ kernel = KernelNew(InitialEnergy)
    /\ ticked = FALSE
    /\ used = [ticks |-> 0, extras |-> 0]
    /\ tick_end = <<>>

Init ==
    /\ sched = IdleSched
    /\ field = IdleField
    /\ asm = IdleAsm
    /\ KernelInit
    /\ universe = UniverseNew(1, 0)
    /\ snapshot = <<>>
    /\ trail = NoTrail
    /\ vm = IdleVm

\* The tables and totals a tick leaves behind.
EndOfTick(k) ==
    [global_energy |-> k.global_energy,
     global_entropy |-> k.global_entropy,
     universes |-> k.universes,
     interactions |-> k.interactions]

Running == ~kernel.panicked

\* The kernel is still being set up: nothing has run on it yet.
SettingUp == Running /\ used.ticks = 0 /\ used.extras = 0

MayDisturb == Running /\ used.extras < MaxExtras

Operated == /\ ticked' = FALSE
            /\ UNCHANGED <<used, tick_end, bench>>

Disturbed == /\ ticked' = FALSE
             /\ used' = [used EXCEPT !.extras = @ + 1]
             /\ UNCHANGED <<tick_end, bench>>

\* kernel.spawn_universe(initial_energy)
Spawn(initial_energy) ==
    /\ SettingUp
    /\ kernel.next_universe_id <= MaxUniverses
    /\ SpawnUniverse(kernel, initial_energy).ok
    /\ kernel' = SpawnUniverse(kernel, initial_energy).k
    /\ Operated

\* kernel.create_interaction(source, target, coupling_strength)
Connect(source, target, coupling_strength) ==
    /\ SettingUp
    /\ kernel.next_interaction_id <= MaxInteractions
    /\ {source, target} \subseteq DOMAIN kernel.universes
    /\ kernel' = CreateInteraction(kernel, source, target, coupling_strength).k
    /\ Operated

\* kernel.add_driver(driver)
AddDriver ==
    /\ SettingUp
    /\ kernel.drivers < MaxDrivers
    /\ kernel' = [kernel EXCEPT !.drivers = @ + 1]
    /\ Operated

\* kernel.load_program(universe_id, code)
Load(universe_id, code) ==
    /\ MayDisturb
    /\ LoadProgram(kernel, universe_id, code).ok
    /\ kernel' = LoadProgram(kernel, universe_id, code).k
    /\ Disturbed

\* kernel.evolution_step(), the drivers' sync handing over incoming_events.
Tick(incoming_events, tie, pref) ==
    /\ Running
    /\ used.ticks < MaxTicks
    /\ incoming_events # <<>> => kernel.drivers > 0 /\ used.extras < MaxExtras
    /\ kernel' = EvolutionStep(kernel, incoming_events, tie, pref)
    /\ ticked' = TRUE
    /\ used' = [ticks |-> used.ticks + 1,
                extras |-> used.extras + (IF incoming_events = <<>> THEN 0 ELSE 1)]
    /\ tick_end' = Append(tick_end, EndOfTick(kernel'))
    /\ UNCHANGED bench

\* kernel.rewind(steps)
RewindOp(steps) ==
    /\ MayDisturb
    /\ Rewind(kernel, steps).ok
    /\ kernel' = Rewind(kernel, steps).k
    /\ Disturbed

\* kernel.collapse_universe(id)
Collapse(id) ==
    /\ MayDisturb
    /\ CollapseUniverse(kernel, id).ok
    /\ kernel' = CollapseUniverse(kernel, id).k
    /\ Disturbed

\* kernel.spawn_event(source, target, Signal, data, energy)
Emit(source, target, pref) ==
    /\ MayDisturb
    /\ source \in DOMAIN kernel.universes
    /\ kernel' = SpawnEvent(kernel, source, target, "Signal", <<72>>, SCALE, pref).k
    /\ Disturbed

\* kernel.branch_universe(parent_id)
Branch(parent_id) ==
    /\ MayDisturb
    /\ kernel.next_universe_id <= MaxUniverses
    /\ BranchUniverse(kernel, parent_id).ok
    /\ kernel' = BranchUniverse(kernel, parent_id).k
    /\ Disturbed

Ids == 1..MaxUniverses

\* A universe of another kernel node (main.rs signals the gateway 999).
RemoteId == 999

Next ==
    \/ \E e \in SpawnEnergies : Spawn(e)
    \/ \E s \in Ids, t \in Ids, c \in Couplings : s < t /\ Connect(s, t, c)
    \/ AddDriver
    \/ \E u \in Ids, p \in Programs : Load(u, p)
    \/ \E d \in DriverInputs, tie \in Orders(DOMAIN kernel.universes),
          pref \in Orders(DOMAIN kernel.interactions) : Tick(d, tie, pref)
    \/ \E n \in 1..2 : RewindOp(n)
    \/ \E id \in Ids : Collapse(id)
    \/ \E s \in Ids, t \in Ids \cup {RemoteId}, pref \in Orders(DOMAIN kernel.interactions) :
          s # t /\ Emit(s, t, pref)
    \/ \E id \in Ids : Branch(id)

Spec == Init /\ [][Next]_vars

\* ------------------------------------------------------------------------
\* Long runs: the snapshot history at its capacity
\* ------------------------------------------------------------------------

MaxLongTicks == 102

\* Rewinds (by call or by a driver's Reversion event) in one long run.
MaxLongRewinds == 1

LongRewindSteps == {1, 3}

LongDriverInputs == {<<>>, <<RemoteEvent("Reversion", 900, 0, 0, <<2>>)>>}

\* kernel.evolution_step() of a long run.
LongTick(incoming_events) ==
    /\ Running
    /\ used.ticks < MaxLongTicks
    /\ incoming_events # <<>> => kernel.drivers > 0 /\ used.extras < MaxLongRewinds
    /\ kernel' = EvolutionStep(kernel, incoming_events, <<>>, <<>>)
    /\ ticked' = TRUE
    /\ used' = [ticks |-> used.ticks + 1,
                extras |-> used.extras + (IF incoming_events = <<>> THEN 0 ELSE 1)]
    /\ UNCHANGED <<tick_end, bench>>

\* kernel.rewind(steps) of a long run.
LongRewind(steps) ==
    /\ Running
    /\ used.extras < MaxLongRewinds
    /\ Rewind(kernel, steps).ok
    /\ kernel' = Rewind(kernel, steps).k
    /\ Disturbed

NextHistory ==
    \/ AddDriver
    \/ \E d \in LongDriverInputs : LongTick(d)
    \/ \E n \in LongRewindSteps : LongRewind(n)

SpecHistory == Init /\ [][NextHistory]_vars

\* ------------------------------------------------------------------------
\* A universe on its own: snapshot, mutations, restore
\* ------------------------------------------------------------------------

MaxMutations == 4

InitUniverse ==
    /\ sched = IdleSched
    /\ field = IdleField
    /\ asm = IdleAsm
    /\ KernelInit
    /\ universe \in {UniverseNew(1, e) : e \in SpawnEnergies}
    /\ snapshot = <<>>
    /\ trail = NoTrail
    /\ vm = IdleVm

MayMutate == ~trail.restored /\ trail.mutations < MaxMutations

Mutated(u) ==
    /\ universe' = u
    /\ trail' = [trail EXCEPT !.mutations = @ + 1]
    /\ UNCHANGED <<run, snapshot, vm, asm, sched, field>>

\* universe.snapshot()
TakeSnapshot ==
    /\ ~trail.taken
    /\ snapshot' = <<UniverseSnapshot(universe)>>
    /\ trail' = [trail EXCEPT !.taken = TRUE, !.original = universe]
    /\ UNCHANGED <<run, universe, vm, asm, sched, field>>

\* universe.restore_from_snapshot(snapshot)
Restore ==
    /\ trail.taken /\ ~trail.restored
    /\ universe' = RestoreFromSnapshot(universe, snapshot[1])
    /\ trail' = [trail EXCEPT !.restored = TRUE, !.before = universe]
    /\ UNCHANGED <<run, snapshot, vm, asm, sched, field>>

\* universe.add_interaction(interaction_id)
MutateLinks(interaction_id) == MayMutate /\ Mutated(AddInteraction(universe, interaction_id))

\* universe.transfer_energy(amount)
MutateEnergy(amount) ==
    /\ MayMutate
    /\ TransferEnergy(universe, amount).ok
    /\ Mutated(TransferEnergy(universe, amount).u)

\* universe.increase_entropy(delta)
MutateEntropy(delta) == MayMutate /\ Mutated(IncreaseEntropy(universe, delta).u)

\* universe.advance_time()
MutateTime == MayMutate /\ Mutated(AdvanceTime(universe))

\* universe.update_stability()
MutateStability == MayMutate /\ Mutated(UpdateStability(universe))

\* universe.state_vector = StateVector::from_raw(bytes)
MutateMemory(bytes) == MayMutate /\ Mutated([universe EXCEPT !.state_vector = FromRaw(bytes)])

\* universe.state_vector = StateVector::compress(bytes)
MutateCompress(bytes, packed) ==
    MayMutate /\ Mutated([universe EXCEPT !.state_vector = Compress(bytes, packed)])

\* universe.last_evolution = step, as evolve_universes sets it
MutateEvolution(step) == MayMutate /\ Mutated([universe EXCEPT !.last_evolution = step])

NextUniverse ==
    \/ TakeSnapshot
    \/ Restore
    \/ \E i \in 1..MaxInteractions : MutateLinks(i)
    \/ \E a \in {-30 * SCALE, 20 * SCALE} : MutateEnergy(a)
    \/ \E d \in {5 * SCALE} : MutateEntropy(d)
    \/ MutateTime
    \/ MutateStability
    \/ \E b \in {<<1, 2, 3>>} : MutateMemory(b)
    \/ \E b \in {<<7, 7, 7, 7>>}, p \in {<<4, 7>>} : MutateCompress(b, p)
    \/ \E t \in {7} : MutateEvolution(t)

SpecUniverse == InitUniverse /\ [][NextUniverse]_vars

\* ------------------------------------------------------------------------
\* The processor on its own: any memory, any instruction
\* ------------------------------------------------------------------------

MaxVmSteps == 2

\* The opcodes of OpCode::from_u8, and 0 (no opcode: NoOp).
VmOpcodes == {0, 1, 2, 3, 4, 5, 6, 16, 17, 32, 33, 34, 35,
              160, 161, 162, 240, 241, 242, 243, 244, 255}

\* Six-byte memories: operand 9 is an address outside, 1 and 4 are inside.
ShortMemories ==
    {<<op, a, b, c, 5, 9>> : op \in VmOpcodes, a \in {1, 4, 9}, b \in {1, 4, 9}, c \in {1, 4, 9}}

\* Full windows with a stack instruction and the stack pointer at its first
\* value, at 0 and at the top.
WindowMemories ==
    {[NewRaw(<<op, a, 33, 255>>).data EXCEPT ![SP_ADDR + 1] = sp]
        : op \in {32, 33, 34, 35}, a \in {1, 200}, sp \in {0, SP_ADDR - 1, SP_ADDR}}

\* Six-byte memories that jump to an instruction in their last two bytes,
\* where at most one operand byte follows the opcode.
TailMemories ==
    {<<16, 4, 0, 0, op, a>> : op \in VmOpcodes \cup {7}, a \in {0, 1}}
        \cup {<<16, 5, 0, 0, 0, op>> : op \in VmOpcodes \cup {7}}

InitVm ==
    /\ sched = IdleSched
    /\ field = IdleField
    /\ asm = IdleAsm
    /\ KernelInit
    /\ universe = UniverseNew(1, 0)
    /\ snapshot = <<>>
    /\ trail = NoTrail
    /\ vm \in {[mem |-> m, ip |-> 0, steps |-> 0, before |-> m, before_ip |-> 0,
                fault |-> FALSE] : m \in ShortMemories \cup WindowMemories \cup TailMemories}

\* UniversalProcessor::step(state, ip, _)
VmStep ==
    /\ vm.steps < MaxVmSteps
    /\ LET r == Step(vm.mem, vm.ip)
       IN  vm' = [mem |-> r.mem, ip |-> r.next_ip, steps |-> vm.steps + 1,
                  before |-> vm.mem, before_ip |-> vm.ip, fault |-> r.fault]
    /\ UNCHANGED <<run, universe, snapshot, trail, asm, sched, field>>

NextVm == VmStep

SpecVm == InitVm /\ [][NextVm]_vars

\* ------------------------------------------------------------------------
\* One universe, loaded and run step by step
\* ------------------------------------------------------------------------

MaxLoaderSteps == 4

\* PUSH 5 / POP 6 / HALT, with the byte 77 at address 5.
ProgPushPop == <<34, 5, 35, 6, 255, 77>>

\* CALL 3 / HALT / RET
ProgCallRet == <<32, 3, 255, 33>>

\* POP 10 / CALL 5 / HALT / RET: the POP finds the stack empty.
ProgPopCallRet == <<35, 10, 32, 5, 255, 33>>

LoaderPrograms == Programs \cup {ProgPushPop, ProgCallRet, ProgPopCallRet}

InitLoader ==
    /\ sched = IdleSched
    /\ field = IdleField
    /\ asm = IdleAsm
    /\ kernel \in {SpawnUniverse(KernelNew(InitialEnergy), e).k : e \in SpawnEnergies}
    /\ ticked = FALSE
    /\ used = [ticks |-> 0, extras |-> 0]
    /\ tick_end = <<>>
    /\ universe = UniverseNew(1, 0)
    /\ snapshot = <<>>
    /\ trail = NoTrail
    /\ vm = IdleVm

\* kernel.load_program(1, code)
LoaderLoad(code) ==
    /\ used.extras < MaxLoaderSteps
    /\ LoadProgram(kernel, 1, code).ok
    /\ kernel' = LoadProgram(kernel, 1, code).k
    /\ Disturbed

\* universe.execute_step(), as evolve_universes calls it on a scheduled
\* universe.
LoaderRun ==
    /\ used.extras < MaxLoaderSteps
    /\ kernel' = [kernel EXCEPT !.universes[1] = ExecuteStep(@).u]
    /\ Disturbed

NextLoader ==
    \/ \E code \in LoaderPrograms : LoaderLoad(code)
    \/ LoaderRun

SpecLoader == InitLoader /\ [][NextLoader]_vars

\* ------------------------------------------------------------------------
\* One assemble() call, line by line
\* ------------------------------------------------------------------------

InitAsm ==
    /\ sched = IdleSched
    /\ field = IdleField
    /\ KernelInit
    /\ universe = UniverseNew(1, 0)
    /\ snapshot = <<>>
    /\ trail = NoTrail
    /\ vm = IdleVm
    /\ asm \in {AsmStart(source, build) : source \in AsmSources, build \in Builds}

\* An iteration of the first loop, or its end.
AsmPass1 ==
    /\ asm.result = "running"
    /\ asm.pass = 1
    /\ asm' = AsmAdvance(asm)
    /\ UNCHANGED <<run, universe, snapshot, trail, vm, sched, field>>

\* An iteration of the second loop, or the return of Ok(bytecode).
AsmPass2 ==
    /\ asm.result = "running"
    /\ asm.pass = 2
    /\ asm' = AsmAdvance(asm)
    /\ UNCHANGED <<run, universe, snapshot, trail, vm, sched, field>>

NextAsm == AsmPass1 \/ AsmPass2

SpecAsm == InitAsm /\ [][NextAsm]_vars

\* ------------------------------------------------------------------------
\* A long-lived kernel: universe ids up to the off-node addresses
\* ------------------------------------------------------------------------

\* Universe ids one run allocates.
MaxGatewayIds == 1000

\* spawn_event calls in one such run.
MaxGatewayEvents == 1

\* kernel.spawn_universe(initial_energy): one universe at a time while the
\* ids are low, up to two when they reach the gateway's address.
GwSpawn(initial_energy) ==
    /\ Running
    /\ used.extras = 0
    /\ kernel.next_universe_id <= MaxGatewayIds
    /\ Cardinality(DOMAIN kernel.universes) < 2
    /\ DOMAIN kernel.universes = {} \/ kernel.next_universe_id >= RemoteId - 1
    /\ SpawnUniverse(kernel, initial_energy).ok
    /\ kernel' = SpawnUniverse(kernel, initial_energy).k
    /\ Operated

\* kernel.collapse_universe(id) of a universe with a low id.
GwCollapse(id) ==
    /\ Running
    /\ used.extras = 0
    /\ kernel.next_universe_id < RemoteId
    /\ CollapseUniverse(kernel, id).ok
    /\ kernel' = CollapseUniverse(kernel, id).k
    /\ Operated

\* kernel.create_interaction(source, target, coupling_strength)
GwConnect(source, target, coupling_strength) ==
    /\ Running
    /\ used.extras = 0
    /\ kernel.next_interaction_id <= 1
    /\ source < target
    /\ {source, target} \subseteq DOMAIN kernel.universes
    /\ kernel' = CreateInteraction(kernel, source, target, coupling_strength).k
    /\ Operated

\* kernel.add_driver(driver)
GwAddDriver ==
    /\ Running
    /\ used.extras = 0
    /\ kernel.next_universe_id >= RemoteId - 1
    /\ kernel.drivers < MaxDrivers
    /\ kernel' = [kernel EXCEPT !.drivers = @ + 1]
    /\ Operated

\* kernel.spawn_event(source, target, Signal, data, energy)
GwEmit(source, target) ==
    /\ Running
    /\ used.extras < MaxGatewayEvents
    /\ source \in DOMAIN kernel.universes
    /\ source # target
    /\ kernel' = SpawnEvent(kernel, source, target, "Signal", <<72>>, SCALE, <<>>).k
    /\ Disturbed

NextGateway ==
    \/ \E e \in {50 * SCALE} : GwSpawn(e)
    \/ \E id \in DOMAIN kernel.universes : GwCollapse(id)
    \/ \E s \in DOMAIN kernel.universes, t \in DOMAIN kernel.universes, c \in Couplings :
          GwConnect(s, t, c)
    \/ GwAddDriver
    \/ \E s \in DOMAIN kernel.universes, t \in DOMAIN kernel.universes \cup {RemoteId, RemoteId + 1} :
          GwEmit(s, t)

SpecGateway == Init /\ [][NextGateway]_vars

\* ------------------------------------------------------------------------
\* The security audit: universes tampered with between ticks
\* ------------------------------------------------------------------------

\* inject_energy calls and writes through get_universe_mut in one run.
MaxTampers == 2

\* Ticks of one such run.
MaxAuditTicks == 2

\* Two universes, joined by an interaction or not.
AuditKernels ==
    {SpawnUniverse(SpawnUniverse(KernelNew(InitialEnergy), 50 * SCALE).k, 100 * SCALE).k,
     CreateInteraction(
         SpawnUniverse(SpawnUniverse(KernelNew(InitialEnergy), 50 * SCALE).k, 100 * SCALE).k,
         1, 2, 8000).k}

InitAudit ==
    /\ sched = IdleSched
    /\ field = IdleField
    /\ asm = IdleAsm
    /\ kernel \in AuditKernels
    /\ ticked = FALSE
    /\ used = [ticks |-> 0, extras |-> 0]
    /\ tick_end = <<>>
    /\ universe = UniverseNew(1, 0)
    /\ snapshot = <<>>
    /\ trail = NoTrail
    /\ vm = IdleVm

\* kernel.inject_energy(target_id, amount); a negative amount takes energy
\* out of the universe.
AuditInject(target_id, amount) ==
    /\ Running
    /\ used.extras < MaxTampers
    /\ InjectEnergy(kernel, target_id, amount).ok
    /\ kernel' = InjectEnergy(kernel, target_id, amount).k
    /\ Disturbed

\* kernel.get_universe_mut(id).unwrap().stability_score = score
AuditSetStability(id, score) ==
    /\ Running
    /\ used.extras < MaxTampers
    /\ id \in DOMAIN kernel.universes
    /\ kernel' = [kernel EXCEPT !.universes[id].stability_score = score]
    /\ Disturbed

\* kernel.evolution_step()
AuditTick(tie, pref) ==
    /\ Running
    /\ used.ticks < MaxAuditTicks
    /\ kernel' = EvolutionStep(kernel, <<>>, tie, pref)
    /\ ticked' = TRUE
    /\ used' = [used EXCEPT !.ticks = @ + 1]
    /\ UNCHANGED <<tick_end, bench>>

NextAudit ==
    \/ \E id \in Ids, amount \in {-60 * SCALE, -120 * SCALE, 10 * SCALE} : AuditInject(id, amount)
    \/ \E id \in Ids, score \in {(3 * SCALE) \div 2} : AuditSetStability(id, score)
    \/ \E tie \in Orders(DOMAIN kernel.universes), pref \in Orders(DOMAIN kernel.interactions) :
          AuditTick(tie, pref)

SpecAudit == InitAudit /\ [][NextAudit]_vars

\* ------------------------------------------------------------------------
\* The scheduler on its own: schedule() and next_tasks(), step by step
\* ------------------------------------------------------------------------

\* Universes handed to one schedule() call.
MaxScheduled == 4

\* Their priorities, in units of 0.0001: below, at and above the threshold.
SchedPriorities == 0..3

RECURSIVE PriorityLists(_)
PriorityLists(n) ==
    IF n = 0 THEN {<<>>}
    ELSE PriorityLists(n - 1)
         \cup {Append(l, p) : l \in {m \in PriorityLists(n - 1) : Len(m) = n - 1},
                               p \in SchedPriorities}

InitScheduler ==
    /\ asm = IdleAsm
    /\ KernelInit
    /\ universe = UniverseNew(1, 0)
    /\ snapshot = <<>>
    /\ trail = NoTrail
    /\ vm = IdleVm
    /\ sched \in {SchedStart(l) : l \in PriorityLists(MaxScheduled)}
    /\ field = IdleField

\* schedule(): the loop over the universes.
SchedulerPush ==
    /\ sched.pending # <<>>
    /\ sched' = SchedulePush(sched)
    /\ UNCHANGED <<run, universe, snapshot, trail, vm, asm, field>>

\* next_tasks(universes.len()): the loop over the queue.
SchedulerPop ==
    /\ sched.pending = <<>>
    /\ Len(sched.tasks) < sched.count
    /\ sched.task_queue # <<>>
    /\ sched' = SchedulePop(sched)
    /\ UNCHANGED <<run, universe, snapshot, trail, vm, asm, field>>

NextScheduler == SchedulerPush \/ SchedulerPop

SpecScheduler == InitScheduler /\ [][NextScheduler]_vars

\* ------------------------------------------------------------------------
\* The interaction field on its own: registrations, removals, path queries
\* ------------------------------------------------------------------------

\* Universes the interactions join.
MaxFieldUniverses == 4

\* Interactions registered in one run.
MaxRegistered == 3

FieldUniverses == 1..MaxFieldUniverses

InitField ==
    /\ sched = IdleSched
    /\ asm = IdleAsm
    /\ KernelInit
    /\ universe = UniverseNew(1, 0)
    /\ snapshot = <<>>
    /\ trail = NoTrail
    /\ vm = IdleVm
    /\ field = IdleField

\* interaction_field.register_interaction(id, source, target) with the id
\* create_interaction takes from its counter.
FieldRegister(source, target) ==
    /\ field.next_interaction_id <= MaxRegistered
    /\ field' = [index |-> RegisterInteraction(field.index, field.next_interaction_id,
                                               source, target),
                 next_interaction_id |-> field.next_interaction_id + 1]
    /\ UNCHANGED <<run, universe, snapshot, trail, vm, asm, sched>>

\* interaction_field.unregister_interaction(id)
FieldUnregister(id) ==
    /\ id \in DOMAIN field.index.interactions
    /\ field' = [field EXCEPT !.index = UnregisterInteraction(@, id)]
    /\ UNCHANGED <<run, universe, snapshot, trail, vm, asm, sched>>

NextField ==
    \/ \E source \in FieldUniverses, target \in FieldUniverses : FieldRegister(source, target)
    \/ \E id \in 1..MaxRegistered : FieldUnregister(id)

SpecField == InitField /\ [][NextField]_vars

\* ------------------------------------------------------------------------
\* Properties
\* ------------------------------------------------------------------------

\* verify_laws, LAW 1: the drift of the ledger is within ENERGY_EPSILON.
Ledger(k) ==
    Abs(CalculateTotalEnergy(k) - (k.initial_total_energy + EnergyFlux(k))) <= ENERGY_EPSILON

\* C1: after every evolution_step, global_energy + the energy of the live
\* universes + the payloads queued in interactions equals
\* initial_total_energy + energy_materialized - energy_radiated within 0.001.
C1_EnergyLedger == (ticked /\ Running) => Ledger(kernel)

\* C2: a tick that follows a tick never ends with a global_entropy lower than
\* the one the previous tick ended with.
C2_EntropyMonotone ==
    [][(ticked /\ ticked' /\ ~kernel'.panicked)
          => kernel'.global_entropy >= kernel.global_entropy]_vars

\* C3: every interaction id in a live universe's interaction_links is in the
\* interaction table, and that interaction has the universe as its source or
\* its target.
C3_LinkIntegrity ==
    \A u \in DOMAIN kernel.universes :
        \A l \in kernel.universes[u].interaction_links :
            /\ l \in DOMAIN kernel.interactions
            /\ u \in {kernel.interactions[l].source, kernel.interactions[l].target}

\* C4: at the end of every tick every universe in the universe table has
\* energy >= 0.
C4_EnergyNonNegative ==
    (ticked /\ Running) =>
        \A u \in DOMAIN kernel.universes : kernel.universes[u].energy >= 0

\* C4 witness: a tick whose audit collapsed a universe, and universes remain.
C4_Witness ==
    /\ ticked /\ Running
    /\ kernel.audited # {}
    /\ DOMAIN kernel.universes # {}

\* C9: every interaction in the interaction table has a coupling_strength
\* in [0, 1].
C9_CouplingBounds ==
    \A i \in DOMAIN kernel.interactions :
        /\ kernel.interactions[i].coupling_strength >= 0
        /\ kernel.interactions[i].coupling_strength <= SCALE

\* C9 witness: an interaction created by an ENTANGLE event (the program,
\* not create_interaction, made it) that has decayed at least once.
C9_Witness ==
    \E i \in DOMAIN kernel.interactions :
        /\ kernel.interactions[i].coupling_strength = FMul((200 * SCALE) \div 255, SCALE - DEFAULT_DECAY_RATE)
        /\ kernel.interactions[i].age = 1

\* The events queued on the interactions of k, with their interaction.
QueuedOn(k) ==
    UNION {{[event |-> e, interaction |-> i]
             : e \in Range(k.interactions[i].forward_events)
                     \cup Range(k.interactions[i].backward_events)}
           : i \in DOMAIN k.interactions}

IsTick == used'.ticks = used.ticks + 1

\* The arrival the tick recorded for the push gid, delivered one step after
\* the push with the payload credited to a target that exists.
DeliveredNextTick(k, gid, pushed_step) ==
    \E n \in DOMAIN k.arrivals :
        /\ k.arrivals[n].gid = gid
        /\ k.arrivals[n].step = pushed_step + 1
        /\ k.arrivals[n].target_exists => k.arrivals[n].credited = k.arrivals[n].energy_payload

C6_RewindRestoresTick ==
    [][(/\ kernel.drivers = 0
        /\ kernel.rewinds = 0
        /\ kernel.evolution_step = Len(tick_end))
          => \A n \in 1..(Len(tick_end) - 1) :
                (Rewind(kernel, n).ok /\ kernel' = Rewind(kernel, n).k)
                    => EndOfTick(kernel') = tick_end[Len(tick_end) - n]]_vars

\* C7 as stated: the restored universe equals the universe of snapshot time
\* in every attribute but entropy, which is the larger of the entropy at
\* snapshot time and the entropy just before the restore.
C7_RestoreEqualsOriginal ==
    trail.restored =>
        universe = [trail.original EXCEPT
                       !.entropy = Max(trail.original.entropy, trail.before.entropy)]

\* C7 amended: the restored universe has the state vector, energy, stability
\* score and timeline index of snapshot time, the larger of the entropy at
\* snapshot time and the entropy just before the restore, and in every other
\* attribute (id, interaction_links, creation_time, last_evolution,
\* instruction_pointer) the value it had just before the restore.
C7_RestoreRoundTrip ==
    trail.restored =>
        universe = [trail.before EXCEPT
                       !.state_vector = trail.original.state_vector,
                       !.energy = trail.original.energy,
                       !.stability_score = trail.original.stability_score,
                       !.timeline_index = trail.original.timeline_index,
                       !.entropy = Max(trail.original.entropy, trail.before.entropy)]

\* C7 witness: a restore after mutations that changed the energy, raised the
\* entropy and attached an interaction.
C7_Witness ==
    /\ trail.restored
    /\ trail.before.energy # trail.original.energy
    /\ trail.before.entropy > trail.original.entropy
    /\ trail.before.interaction_links # trail.original.interaction_links

\* The byte ranges <<first address, length>> named by the operands of the
\* instruction at ip, when the memory holds all its operands.
AddressOperands(mem, ip) ==
    LET n  == Len(mem)
        op == IF ip < n THEN Rd(mem, ip) ELSE 0
        at(i) == Rd(mem, ip + i)
    IN  CASE op \in {1, 2} /\ ip + 2 < n  -> {<<at(1), 1>>}
          [] op = 3 /\ ip + 3 < n         -> {<<at(1), at(3)>>, <<at(2), at(3)>>}
          [] op \in {4, 5} /\ ip + 2 < n  -> {<<at(1), 1>>, <<at(2), 1>>}
          [] op = 6 /\ ip + 3 < n         -> {<<at(1), 1>>, <<at(2), 1>>, <<at(3), 1>>}
          [] op \in {16, 32} /\ ip + 1 < n -> {<<at(1), 1>>}
          [] op = 17 /\ ip + 2 < n        -> {<<at(1), 1>>, <<at(2), 1>>}
          [] op \in {34, 35} /\ ip + 1 < n -> {<<at(1), 1>>}
          [] OTHER                        -> {}

OperandOutOfRange(mem, ip) ==
    \E r \in AddressOperands(mem, ip) : r[1] + r[2] > Len(mem)

\* C8: a VM step stores to no index outside the memory it was given (no
\* store faults and the memory keeps its length), and when an address
\* operand of the instruction is out of range the memory is left as it was.
C8_MemoryBounds ==
    vm.steps > 0 =>
        /\ ~vm.fault
        /\ Len(vm.mem) = Len(vm.before)
        /\ OperandOutOfRange(vm.before, vm.before_ip) => vm.mem = vm.before

\* C8 witness: a second step whose instruction has an out-of-range address
\* operand, after a first step that has moved the instruction pointer.
C8_Witness ==
    /\ vm.steps = 2
    /\ vm.before_ip > 0
    /\ OperandOutOfRange(vm.before, vm.before_ip)

\* C10: the history holds at most 100 snapshots with strictly increasing
\* tick numbers, and a tick that records its snapshot when 100 are held (and
\* does not rewind afterwards) drops exactly the oldest one.
C10_HistoryRing ==
    /\ [](/\ Len(kernel.history) <= HISTORY_CAPACITY
          /\ \A i \in 1..(Len(kernel.history) - 1) :
                kernel.history[i].evolution_step < kernel.history[i + 1].evolution_step)
    /\ [][(/\ IsTick
           /\ Len(kernel.history) = HISTORY_CAPACITY
           /\ kernel'.rewinds = kernel.rewinds)
             => /\ Len(kernel'.history) = HISTORY_CAPACITY
                /\ SubSeq(kernel'.history, 1, HISTORY_CAPACITY - 1) = Tail(kernel.history)
                /\ kernel'.history[HISTORY_CAPACITY].evolution_step = kernel'.evolution_step]_vars

\* C10 witness: a full history whose oldest snapshot is no longer tick 1's,
\* reached through a rewind.
C10_Witness ==
    /\ Len(kernel.history) = HISTORY_CAPACITY
    /\ kernel.history[1].evolution_step > 1
    /\ kernel.rewinds > 0

\* C11: a universe whose entropy and energy at the start of a tick give a
\* stability clamp(exp(-0.01 * entropy) * min(energy / 100, 1), 0, 1) below
\* 0.3 is no longer in the universe table when the tick ends.
C11_UnstableCollapses ==
    [][(IsTick /\ ~kernel'.panicked)
          => \A u \in DOMAIN kernel.universes :
                UpdateStability(kernel.universes[u]).stability_score < STABILITY_THRESHOLD
                    => u \notin DOMAIN kernel'.universes]_vars

\* The kernels n ticks after one of the kernels K, no driver input.
RECURSIVE AfterTicks(_, _)
AfterTicks(K, n) ==
    IF n = 0 THEN K
    ELSE AfterTicks(UNION {{EvolutionStep(k, <<>>, tie, pref) :
                               tie \in Orders(DOMAIN k.universes),
                               pref \in Orders(DOMAIN k.interactions)} : k \in K}, n - 1)

\* Two universes of 100 J joined at strength 0.8, the first loaded with
\* SIGNAL 2 "HELLO"; HALT.
SignalScenario ==
    LoadProgram(
        CreateInteraction(
            SpawnUniverse(SpawnUniverse(KernelNew(InitialEnergy), 100 * SCALE).k,
                          100 * SCALE).k,
            1, 2, 8 * (SCALE \div 10)).k,
        1, ProgSignal).k

SignalOutcomes == AfterTicks({SignalScenario}, 3)

\* C12: three ticks after the signal scenario was set up, universe 2 has
\* about 101 J and universe 1 about 99 J, each within 0.5 J.
C12_SignalRoundTrip ==
    kernel \in SignalOutcomes =>
        /\ {1, 2} \subseteq DOMAIN kernel.universes
        /\ Abs(kernel.universes[2].energy - 101 * SCALE) <= SCALE \div 2
        /\ Abs(kernel.universes[1].energy - 99 * SCALE) <= SCALE \div 2

\* A lone universe of 50 J loaded with BRANCH 32 10; HALT.
BranchScenario ==
    LoadProgram(SpawnUniverse(KernelNew(InitialEnergy), 50 * SCALE).k, 1, ProgBranch).k

BranchOutcomes == AfterTicks({BranchScenario}, 1) \cup AfterTicks({BranchScenario}, 2)

\* C13: within two ticks of the branch scenario a second universe exists
\* with energy 32 and stability 0.5, and byte 10 of the parent's memory is
\* the low byte of its id.
C13_BranchByProgram ==
    kernel \in AfterTicks({BranchScenario}, 2) =>
        \E past \in BranchOutcomes :
            \E c \in DOMAIN past.universes \ {1} :
                /\ past.universes[c].energy = 32 * SCALE
                /\ past.universes[c].stability_score = SCALE \div 2
                /\ 1 \in DOMAIN past.universes
                /\ Rd(past.universes[1].state_vector.data, 10) = c % 256

\* The pushed events that were not delivered and are on no queue although
\* their interaction exists.
Lost(k) ==
    {e \in k.sent : /\ e.gid \notin k.delivered
                    /\ e.gid \notin {q.gid : q \in Queued(k)}
                    /\ e.interaction \in DOMAIN k.interactions}

\* C14 as stated: no pushed event is delivered a second time, and none is
\* lost while its interaction exists.
C14_ExactlyOnce == kernel.redelivered = {} /\ Lost(kernel) = {}

\* The events with the serial numbers g and h were pushed onto the same
\* interaction in the same direction.
SameQueue(k, g, h) ==
    \E a \in k.sent, b \in k.sent :
        /\ a.gid = g /\ b.gid = h
        /\ a.interaction = b.interaction /\ a.target = b.target

\* The serial numbers of q grow from front to back.
InPushOrder(q) == \A m \in 1..Len(q), n \in 1..Len(q) : m < n => q[m].gid < q[n].gid

\* C15: two events pushed in the same direction on the same interaction
\* are delivered in the order of their pushes (serial numbers grow with
\* the pushes), and every queue holds its events oldest first, so that pop
\* returns the oldest.
C15_PushOrder ==
    /\ \A m \in 1..Len(kernel.arrivals), n \in 1..Len(kernel.arrivals) :
           (m < n /\ SameQueue(kernel, kernel.arrivals[m].gid, kernel.arrivals[n].gid))
               => kernel.arrivals[m].gid < kernel.arrivals[n].gid
    /\ \A i \in DOMAIN kernel.interactions :
           /\ InPushOrder(kernel.interactions[i].forward_events)
           /\ InPushOrder(kernel.interactions[i].backward_events)

\* C15 witness: one tick delivered two events that had been pushed in the
\* same direction on the same interaction.
C15_Witness ==
    \E m \in 1..Len(kernel.arrivals), n \in 1..Len(kernel.arrivals) :
        m < n /\ SameQueue(kernel, kernel.arrivals[m].gid, kernel.arrivals[n].gid)

\* C16: no kernel operation (tick, branch, collapse of another universe,
\* rewind, direct or by a Reversion event) lowers the entropy of a universe
\* that it leaves alive.
C16_UniverseEntropyMonotone ==
    [][\A u \in DOMAIN kernel.universes \cap DOMAIN kernel'.universes :
          kernel'.universes[u].entropy >= kernel.universes[u].entropy]_vars

\* An event without its observation fields.
Plain(event) ==
    [id |-> event.id, event_type |-> event.event_type, source |-> event.source,
     target |-> event.target, energy_payload |-> event.energy_payload,
     data |-> event.data, creation_step |-> event.creation_step]

PlainQueue(q) == [n \in DOMAIN q |-> Plain(q[n])]

\* What a tick leaves behind: the universe ids with their memories and
\* energies, and the interaction table with its queues.
Outcome(k) ==
    [universes |-> [u \in DOMAIN k.universes |->
                       [state_vector |-> k.universes[u].state_vector,
                        energy |-> k.universes[u].energy]],
     interactions |-> [i \in DOMAIN k.interactions |->
                          [k.interactions[i] EXCEPT
                              !.forward_events = PlainQueue(@),
                              !.backward_events = PlainQueue(@)]]]

\* The outcomes of a tick of k with the driver events d under every
\* iteration order of the hash maps and every order of equal priorities.
TickOutcomes(k, d) ==
    {Outcome(EvolutionStep(k, d, tie, pref)) :
        tie \in Orders(DOMAIN k.universes), pref \in Orders(DOMAIN k.interactions)}

\* C17: from one kernel state and one driver input a tick has one outcome,
\* whatever the iteration order of the universe and interaction maps and
\* the order of universes of equal priority.
C17_TickDeterministic ==
    (Running /\ used.ticks < MaxTicks) =>
        \A d \in DriverInputs :
            (d # <<>> => kernel.drivers > 0) => Cardinality(TickOutcomes(kernel, d)) = 1

\* C18: no evolution_step panics, whatever the kernel state, the events
\* the drivers' sync supplies (system events with empty data included) and
\* the loaded programs.
C18_NeverPanics == ~kernel.panicked

\* The amounts handed to transfer_energy on a universe with the given
\* energy: deposits, withdrawals, nothing, and the withdrawals around all
\* the energy there is.
TransferAmounts(energy) ==
    {-30 * SCALE, -10 * SCALE, -1, 0, 1, 20 * SCALE, -energy, -(energy + 1), -(energy - 1)}

BranchId == 2

SpawnRequests(pool) == SpawnEnergies \cup {0, pool, pool + 1, 400 * SCALE}

\* The universe ids the kernel has handed out and still knows: those of
\* the universe table and of the tables in the snapshot history.
KnownIds(k) ==
    DOMAIN k.universes \cup UNION {DOMAIN k.history[n].universes : n \in DOMAIN k.history}

\* C21: spawn_universe(e) fails and changes nothing when e exceeds the
\* pool; otherwise the pool loses exactly e and the universe table gains
\* one universe with a fresh id, energy e, entropy 0 and stability 1, the
\* universes already there staying as they are.
C21_SpawnContract ==
    \A e \in SpawnRequests(kernel.global_energy) :
        IF e > kernel.global_energy
        THEN /\ ~SpawnUniverse(kernel, e).ok
             /\ SpawnUniverse(kernel, e).k = kernel
        ELSE /\ SpawnUniverse(kernel, e).ok
             /\ SpawnUniverse(kernel, e).k.global_energy = kernel.global_energy - e
             /\ \E id \in DOMAIN SpawnUniverse(kernel, e).k.universes :
                   /\ id \notin KnownIds(kernel)
                   /\ DOMAIN SpawnUniverse(kernel, e).k.universes
                         = DOMAIN kernel.universes \cup {id}
                   /\ SpawnUniverse(kernel, e).k.universes[id].id = id
                   /\ SpawnUniverse(kernel, e).k.universes[id].energy = e
                   /\ SpawnUniverse(kernel, e).k.universes[id].entropy = 0
                   /\ SpawnUniverse(kernel, e).k.universes[id].stability_score = SCALE
             /\ \A u \in DOMAIN kernel.universes :
                   SpawnUniverse(kernel, e).k.universes[u] = kernel.universes[u]

\* C21 witness: a kernel that has spawned universes and whose pool is
\* below a spawn energy, so that of the requests some are refused and
\* some are granted.
C21_Witness ==
    /\ kernel.next_universe_id > 1
    /\ kernel.universes # <<>>
    /\ \E e \in SpawnEnergies : ~SpawnUniverse(kernel, e).ok
    /\ \E e \in SpawnEnergies : SpawnUniverse(kernel, e).ok

\* The processor's result n steps after the result r.
RECURSIVE StepsOn(_, _)
StepsOn(r, n) == IF n = 0 THEN r ELSE StepsOn(Step(r.mem, r.next_ip), n - 1)

\* The result of the first n steps of the universe v.
Ran(v, n) == StepsOn(Step(v.state_vector.data, v.instruction_pointer), n - 1)

\* The universe v holds a 256-byte window that begins with code, with 254
\* in the stack pointer byte and the instruction pointer at 0.
IsWindow(v, code) ==
    /\ Len(v.state_vector.data) = SP_ADDR + 1
    /\ Rd(v.state_vector.data, SP_ADDR) = SP_ADDR - 1
    /\ SubSeq(v.state_vector.data, 1, Len(code)) = code
    /\ v.instruction_pointer = 0

\* first is the result of PUSH 5 as first instruction, second of the POP 6
\* after it.
PushPopOnStack(first, second) ==
    /\ Rd(first.mem, SP_ADDR - 1) = 77
    /\ Rd(first.mem, SP_ADDR) = SP_ADDR - 2
    /\ first.next_ip = 2
    /\ Rd(second.mem, 6) = 77
    /\ Rd(second.mem, SP_ADDR) = SP_ADDR - 1

\* first is the result of CALL 3 as first instruction, second of the RET
\* it jumps to.
CallRetOnStack(first, second) ==
    /\ Rd(first.mem, SP_ADDR - 1) = 2
    /\ Rd(first.mem, SP_ADDR) = SP_ADDR - 2
    /\ first.next_ip = 3
    /\ second.next_ip = 2
    /\ Rd(second.mem, SP_ADDR) = SP_ADDR - 1

\* The universe 1 of k right after load_program(1, code).
Loaded(k, code) == LoadProgram(k, 1, code).k.universes[1]

\* C22: after load_program the universe's memory is a 256-byte window that
\* begins with the code, byte 255 holds 254 and the instruction pointer is
\* 0; PUSH and CALL as first instructions write to address 254 and leave
\* the stack pointer at 253, POP and RET after them read address 254 and
\* leave the stack pointer at 254.
C22_LoadedWindow ==
    /\ \A code \in LoaderPrograms :
          LoadProgram(kernel, 1, code).ok /\ IsWindow(Loaded(kernel, code), code)
    /\ PushPopOnStack(Ran(Loaded(kernel, ProgPushPop), 1), Ran(Loaded(kernel, ProgPushPop), 2))
    /\ CallRetOnStack(Ran(Loaded(kernel, ProgCallRet), 1), Ran(Loaded(kernel, ProgCallRet), 2))

\* C22 witness: the universe was loaded with PUSH 5 / POP 6 and has run
\* both, so that its instruction pointer is past them and the popped byte
\* is at address 6.
C22_Witness ==
    /\ Len(kernel.universes[1].state_vector.data) = SP_ADDR + 1
    /\ SubSeq(kernel.universes[1].state_vector.data, 1, 4) = SubSeq(ProgPushPop, 1, 4)
    /\ kernel.universes[1].instruction_pointer = 4
    /\ Rd(kernel.universes[1].state_vector.data, 6) = 77

\* The instruction table of isa.rs the assembler is written for: mnemonic,
\* opcode byte, number of operand bytes (SIGNAL: the target; its length and
\* payload bytes follow).
IsaTable ==
    {[mnemonic |-> MnNop, opcode |-> 0, operands |-> 0],
     [mnemonic |-> MnSet, opcode |-> 1, operands |-> 2],
     [mnemonic |-> MnXor, opcode |-> 2, operands |-> 2],
     [mnemonic |-> MnCopy, opcode |-> 3, operands |-> 3],
     [mnemonic |-> MnAdd, opcode |-> 4, operands |-> 2],
     [mnemonic |-> MnSub, opcode |-> 5, operands |-> 2],
     [mnemonic |-> MnCmp, opcode |-> 6, operands |-> 3],
     [mnemonic |-> MnJump, opcode |-> 16, operands |-> 1],
     [mnemonic |-> MnJumpif, opcode |-> 17, operands |-> 2],
     [mnemonic |-> MnCall, opcode |-> 32, operands |-> 1],
     [mnemonic |-> MnRet, opcode |-> 33, operands |-> 0],
     [mnemonic |-> MnPush, opcode |-> 34, operands |-> 1],
     [mnemonic |-> MnPop, opcode |-> 35, operands |-> 1],
     [mnemonic |-> MnSignal, opcode |-> 240, operands |-> 1],
     [mnemonic |-> MnEntangle, opcode |-> 241, operands |-> 2],
     [mnemonic |-> MnObserve, opcode |-> 242, operands |-> 3],
     [mnemonic |-> MnRevert, opcode |-> 243, operands |-> 1],
     [mnemonic |-> MnBranch, opcode |-> 244, operands |-> 2],
     [mnemonic |-> MnHalt, opcode |-> 255, operands |-> 0]}

\* The table's row for a mnemonic; JMP, JIF and JNZ are the assembler's
\* other spellings of JUMP and JUMPIF.
IsaRow(m) ==
    CHOOSE r \in IsaTable :
        r.mnemonic = (IF m = MnJmp THEN MnJump
                      ELSE IF m \in {MnJif, MnJnz} THEN MnJumpif ELSE m)

\* What a source line is, read word by word.
IsInstruction(line) ==
    /\ ~IsBlankOrComment(Trim(line))
    /\ ~IsDef(Trim(line))
    /\ ~EndsWith(Trim(line), 58)

\* Positions of the double quotes of a line.
QuotesAt(line) == {i \in DOMAIN line : line[i] = 34}

\* The payload a SIGNAL line names: the text between its quotes, or without
\* quotes the words after the target.
Payload(line, words) ==
    IF QuotesAt(line) # {}
    THEN SubSeq(line, (CHOOSE i \in QuotesAt(line) : \A j \in QuotesAt(line) : i <= j) + 1,
                      (CHOOSE i \in QuotesAt(line) : \A j \in QuotesAt(line) : i >= j) - 1)
    ELSE IF Len(words) < 3 THEN <<>>
    ELSE SplitN3Rest(Trim(line))

\* Bytes an instruction line stands for: opcode, operands, and for SIGNAL
\* the length byte and the payload.
InstrSize(line, row) ==
    1 + row.operands
      + (IF row.mnemonic = MnSignal THEN 1 + Len(Payload(line, SplitWhitespace(line))) ELSE 0)

LineSize(line) ==
    IF IsInstruction(line)
    THEN InstrSize(line, IsaRow(ToUppercase(SplitWhitespace(line)[1])))
    ELSE 0

\* Byte offset in the output of the instruction that follows line n.
OffsetAfter(source, n) == SumSeq([i \in 1..n |-> LineSize(source[i])])

\* The lines of a source that declare the label name, and the .def lines
\* that define it.
LabelLines(source, name) ==
    {i \in DOMAIN source : /\ ~IsBlankOrComment(Trim(source[i]))
                           /\ ~IsDef(Trim(source[i]))
                           /\ Trim(source[i]) = Append(name, 58)}

DefLines(source, name) ==
    {i \in DOMAIN source : /\ IsDef(Trim(source[i]))
                           /\ Len(SplitWhitespace(source[i])) >= 3
                           /\ SplitWhitespace(source[i])[2] = name}

Last(S) == CHOOSE i \in S : \A j \in S : i >= j

\* The value an operand word stands for: a decimal number, a .def name, or a
\* label, by the output byte offset of the instruction that follows it.
Operand(source, word) ==
    IF ParseU8(word).ok THEN ParseU8(word).val
    ELSE IF DefLines(source, word) # {}
    THEN ParseU8(SplitWhitespace(source[Last(DefLines(source, word))])[3]).val
    ELSE OffsetAfter(source, Last(LabelLines(source, word)))

\* Opcode byte and resolved operand bytes of one instruction line.
Encoding(source, line, words, row) ==
    (<<row.opcode>> \o [i \in 1..row.operands |-> Operand(source, words[i + 1])])
    \o (IF row.mnemonic = MnSignal
        THEN <<Len(Payload(line, words))>> \o Payload(line, words)
        ELSE <<>>)

LineEncoding(source, line) ==
    IF IsInstruction(line)
    THEN Encoding(source, line, SplitWhitespace(line),
                  IsaRow(ToUppercase(SplitWhitespace(line)[1])))
    ELSE <<>>

\* The concatenation, in source order, of the instructions' encodings.
RECURSIVE Concatenation(_, _)
Concatenation(source, n) ==
    IF n = 0 THEN <<>>
    ELSE Concatenation(source, n - 1) \o LineEncoding(source, source[n])

\* C23: whenever assemble() returns Ok, the bytecode is the concatenation in
\* source order of every instruction's opcode byte and resolved operand bytes
\* (SIGNAL: target, payload length, payload), each label standing for the
\* output byte offset of the instruction that follows it.
C23_AssembleConcatenation ==
    asm.result = "ok" => asm.bytecode = Concatenation(asm.source, Len(asm.source))

\* C23, the program of the description: SET 100 42 / SIGNAL 3 "hi" / HALT
\* assembles to 01 64 2A F0 03 02 68 69 FF.
AsmExampleBytes ==
    (asm.result = "ok" /\ asm.source = SrcExample)
        => asm.bytecode = <<1, 100, 42, 240, 3, 2, 104, 105, 255>>

\* An operand word the assembler is to take: a decimal byte, a .def name or a
\* label of the source.
IsArgument(source, word) ==
    \/ ParseU8(word).ok
    \/ DefLines(source, word) # {}
    \/ LabelLines(source, word) # {}

\* An instruction line made of a mnemonic of the ISA table, in any case, and
\* its operands; a SIGNAL payload is unquoted or between two quotes.
IsIsaLine(source, line, words) ==
    /\ \E row \in IsaTable :
          /\ row.mnemonic = ToUppercase(words[1])
          /\ Len(words) >= 1 + row.operands
          /\ \A i \in 1..row.operands : IsArgument(source, words[i + 1])
    /\ Cardinality(QuotesAt(line)) \in {0, 2}
    /\ Len(Payload(line, words)) <= 255

\* A source of ISA instructions, labels, comments and well-formed .def lines.
IsIsaProgram(source) ==
    \A i \in DOMAIN source :
        /\ IsInstruction(source[i])
              => IsIsaLine(source, source[i], SplitWhitespace(source[i]))
        /\ IsDef(Trim(source[i]))
              => /\ Len(SplitWhitespace(source[i])) >= 3
                 /\ ParseU8(SplitWhitespace(source[i])[3]).ok

\* C24: assemble() accepts every program whose instructions are mnemonics of
\* the ISA table (NOP .. HALT, ENTANGLE, OBSERVE, REVERT and BRANCH included),
\* in any case, with decimal, .def or label arguments.
C24_AcceptsIsaMnemonics ==
    (asm.result \in {"ok", "err", "panic"} /\ IsIsaProgram(asm.source))
        => asm.result = "ok"

\* Payloads of the Reversion events tried, and the steps they ask for.
ReversionPayloads == {0, 5 * SCALE}

RewindSteps == 1..2

\* kernel.spawn_event(source, 0, Reversion, [steps], payload): the payload
\* is taken from the source, route_event rewinds and returns it to the pool.
Reverted(k, source, steps, payload) ==
    SpawnEvent(k, source, 0, "Reversion", <<steps>>, payload, <<>>)

\* C25: immediately after any rewind, called directly or triggered by a
\* Reversion event whose payload is returned to the pool, the ledger identity
\* holds: pool + universe energies + in-transit payloads
\* = initial_total + materialized - radiated.
C25_LedgerAfterRewind ==
    /\ \A steps \in RewindSteps :
          Rewind(kernel, steps).ok => Ledger(Rewind(kernel, steps).k)
    /\ \A source \in DOMAIN kernel.universes, steps \in RewindSteps,
          payload \in ReversionPayloads :
          (/\ Ledger(kernel)
           /\ Reverted(kernel, source, steps, payload).ok
           /\ Reverted(kernel, source, steps, payload).k.rewinds > kernel.rewinds)
              => Ledger(Reverted(kernel, source, steps, payload).k)

\* Positions in history h of the snapshot the kernel k was restored from.
RestoredAt(h, k) == {j \in DOMAIN h : h[j] = KernelSnapshot(k)}

\* history h is what is left of history g once every snapshot recorded later
\* than the one k was restored from is removed.
KeepsUpToRestored(g, h, k) ==
    \E j \in RestoredAt(g, k) : h = SubSeq(g, 1, j)

\* C26: a successful rewind(steps) removes from the history exactly the
\* snapshots recorded later than the restored one: the restored snapshot and
\* all older ones remain, the restored one as the newest entry.
C26_RewindTruncation ==
    \A steps \in RewindSteps :
        Rewind(kernel, steps).ok
            => KeepsUpToRestored(kernel.history, Rewind(kernel, steps).k.history,
                                 Rewind(kernel, steps).k)

\* The interactions of k that have the universe id at one end.
AttachedTo(k, id) ==
    {i \in DOMAIN k.interactions :
        k.interactions[i].source = id \/ k.interactions[i].target = id}

\* C27: collapse_universe conserves the ledger: pool + energies of the live
\* universes + in-transit payloads is the same before and after the call,
\* also when interactions attached to the universe hold queued events.
C27_CollapseConserves ==
    \A id \in DOMAIN kernel.universes :
        CalculateTotalEnergy(CollapseUniverse(kernel, id).k) = CalculateTotalEnergy(kernel)

\* What collapse_universe(id) is to leave of a kernel k whose universe id is
\* live: the universe gone, its energy (not below zero) in the pool, its
\* entropy in the global entropy, no interaction attached to it.
IsCollapsed(k, id, after) ==
    /\ after.universes = Without(k.universes, {id})
    /\ after.global_energy = k.global_energy + Max(k.universes[id].energy, 0)
    /\ after.global_entropy = k.global_entropy + k.universes[id].entropy
    /\ AttachedTo(after, id) = {}
    /\ \A i \in DOMAIN after.interactions :
          i \in DOMAIN k.interactions /\ after.interactions[i] = k.interactions[i]

\* C28: collapse_universe(id) on a live universe removes it, adds
\* max(energy, 0) to the pool and its entropy to the global entropy, and
\* removes every interaction attached to it; for an unknown id it fails with
\* UniverseNotFound and changes nothing.
C28_CollapseContract ==
    \A id \in Ids \cup {RemoteId} :
        IF id \in DOMAIN kernel.universes
        THEN /\ CollapseUniverse(kernel, id).ok
             /\ IsCollapsed(kernel, id, CollapseUniverse(kernel, id).k)
        ELSE /\ ~CollapseUniverse(kernel, id).ok
             /\ CollapseUniverse(kernel, id).k = kernel

\* C28 witness: a kernel with a live universe that has energy, entropy and
\* an attached interaction, and an id that is not live, so that one call
\* collapses and another is refused.
C28_Witness ==
    /\ \E id \in DOMAIN kernel.universes :
          /\ AttachedTo(kernel, id) # {}
          /\ kernel.universes[id].entropy > 0
          /\ kernel.universes[id].energy > 0
          /\ CollapseUniverse(kernel, id).ok
          /\ AttachedTo(CollapseUniverse(kernel, id).k, id) = {}
    /\ \E id \in Ids : ~CollapseUniverse(kernel, id).ok

\* The quantity of the ledger: pool + universe energies + in-transit
\* payloads + radiated - materialized.
LedgerSum(k) == CalculateTotalEnergy(k) + k.energy_radiated - k.energy_materialized

\* Energies handed to spawn_event: one a universe can pay, one it cannot.
EventEnergies == {SCALE, 400 * SCALE}

\* C29: spawn_event leaves pool + universe energies + in-transit + radiated
\* - materialized unchanged for every source and target, also when the source
\* does not exist, when the local target shares no interaction with the
\* source, and when the call returns an error.
C29_SpawnEventLedger ==
    \A source \in Ids \cup {RemoteId}, target \in Ids \cup {RemoteId},
       energy \in EventEnergies, pref \in Orders(DOMAIN kernel.interactions) :
        LedgerSum(SpawnEvent(kernel, source, target, "Signal", <<72>>, energy, pref).k)
            = LedgerSum(kernel)

\* A step of the model that is an evolution_step that returns.
IsReturnedTick == IsTick /\ ~kernel'.panicked

\* C30: every evolution_step leaves the tick counter exactly one greater than
\* it was before the call, for any programs the universes are running.
C30_TickCounter ==
    [][IsReturnedTick => kernel'.evolution_step = kernel.evolution_step + 1]_vars

\* The event types route_event has no arm of its own for.
NonSystemTypes == {"Signal", "EnergyTransfer", "StateMigration", "Cancellation"}

\* An address that is not on this node: the gateway's id or above, or no
\* live universe.
OffNode(k, target) == target >= RemoteId \/ target \notin DOMAIN k.universes

\* The kernel after spawn_event handed route_event an event for an off-node
\* target: nothing pushed, the payload radiated once, every driver called.
RoutedToDrivers(k, after, payload) ==
    /\ after.pushes = k.pushes
    /\ after.interactions = k.interactions
    /\ after.energy_radiated = k.energy_radiated + payload
    /\ after.handled = k.handled + k.drivers

\* C31: a non-system event whose target id is 999 or above, or is not a live
\* local universe, is never pushed onto a local interaction queue: its
\* payload is added to energy_radiated exactly once and the event is handed
\* to every registered driver.
C31_OffNodeToDrivers ==
    \A source \in DOMAIN kernel.universes,
       target \in DOMAIN kernel.universes \cup {RemoteId, RemoteId + 1},
       type \in NonSystemTypes :
        (/\ OffNode(kernel, target)
         /\ SpawnEvent(kernel, source, target, type, <<72>>, SCALE, <<>>).ok)
            => RoutedToDrivers(kernel,
                   SpawnEvent(kernel, source, target, type, <<72>>, SCALE, <<>>).k, SCALE)

\* The universes of k the auditor flags: negative energy, or a stability
\* above 1.0.
Anomalous(k) ==
    {id \in DOMAIN k.universes :
        k.universes[id].energy < 0 \/ k.universes[id].stability_score > SCALE}

\* What the pool is owed for the universes S of k: max(energy, 0) each, once.
Owed(k, S) == SumSeq([i \in 1..Cardinality(S) |-> Max(k.universes[SetToSeq(S)[i]].energy, 0)])

\* pre is the kernel the audit of a tick runs on, post the kernel the tick
\* leaves: every flagged universe is gone and paid for once.
AuditedRight(pre, post) ==
    pre.panicked
    \/ /\ DOMAIN post.universes = DOMAIN pre.universes \ Anomalous(pre)
       /\ post.global_energy = pre.global_energy + Owed(pre, Anomalous(pre))

FlaggedTwice(k) ==
    /\ \E id \in DOMAIN k.universes :
          k.universes[id].energy < 0 /\ k.universes[id].stability_score > SCALE
    /\ DOMAIN k.universes \ Anomalous(k) # {}

WithPriority(l, p) == SelectSeq(l, LAMBDA t : t.priority = p)

\* The tasks of l whose priority is not below 0.0001, those of priority p
\* or less: highest priority first, equal priorities in the order of l.
RECURSIVE ByPriority(_, _)
ByPriority(l, p) ==
    IF p < 1 THEN <<>> ELSE WithPriority(l, p) \o ByPriority(l, p - 1)

\* The scheduler has returned from next_tasks.
Scheduled ==
    sched.pending = <<>> /\ (sched.task_queue = <<>> \/ Len(sched.tasks) = sched.count)

\* C33: the scheduler yields each universe at most once, omits exactly the
\* universes whose priority is below 0.0001, and returns the others in
\* non-increasing priority order, equal priorities in insertion order.
C33_ScheduleOrder ==
    Scheduled =>
        sched.tasks = ByPriority(sched.universes,
                                 CHOOSE p \in SchedPriorities : \A q \in SchedPriorities : q <= p)

\* The operand bytes of the instruction at ip: for SIGNAL the target, the
\* length and as many data bytes as the length byte says.
OperandBytes(mem, ip) ==
    LET op == Rd(mem, ip) IN
    CASE op \in {1, 2, 4, 5, 17, 241, 244, 160, 161} -> 2
      [] op \in {3, 6, 242} -> 3
      [] op \in {16, 32, 34, 35, 243, 162} -> 1
      [] op = 240 -> IF ip + 2 < Len(mem) THEN 2 + Rd(mem, ip + 2) ELSE 2
      [] OTHER -> 0

\* The byte at ip is no opcode, or the instruction's last operand byte
\* lies beyond the end of memory.
DecaysToNop(mem, ip) ==
    \/ Rd(mem, ip) \notin VmOpcodes
    \/ ip + OperandBytes(mem, ip) >= Len(mem)

\* C34: a VM step at an instruction pointer inside memory returns a result,
\* and on a byte that is no opcode, or an instruction whose operands do not
\* all fit before the end of memory, it leaves memory unchanged, emits no
\* event and advances the instruction pointer by exactly 1.
C34_StepDecaysToNop ==
    vm.ip < Len(vm.mem) =>
        /\ ~Step(vm.mem, vm.ip).fault
        /\ DecaysToNop(vm.mem, vm.ip) =>
               /\ Step(vm.mem, vm.ip).mem = vm.mem
               /\ Step(vm.mem, vm.ip).event = NoEvent
               /\ Step(vm.mem, vm.ip).next_ip = vm.ip + 1

\* The instruction pointer addresses a HALT byte.
AtHalt(mem, ip) == ip < Len(mem) /\ Rd(mem, ip) = 255

AtCall(mem, p) ==
    /\ p + 1 < Len(mem)
    /\ Rd(mem, p) = 32
    /\ SP_ADDR < Len(mem)
    /\ Rd(mem, SP_ADDR) > 0
    /\ Rd(mem, SP_ADDR) < Len(mem)

\* The CALL at p lands on a RET, the next instruction executed.
CallsRet(mem, p) ==
    /\ AtCall(mem, p)
    /\ Step(mem, p).next_ip < Len(mem)
    /\ Rd(Step(mem, p).mem, Step(mem, p).next_ip) = 33

\* The machine after the CALL at p and the step that follows it.
AfterCallRet(mem, p) == Step(Step(mem, p).mem, Step(mem, p).next_ip)

\* C36: when a CALL at instruction pointer p with the stack pointer in
\* range is followed by RET as the next stack instruction, then after the
\* RET the instruction pointer is p + 2 and memory[255] has the value it
\* had before the CALL.
C36_CallRetRoundTrip ==
    \A id \in DOMAIN kernel.universes :
        CallsRet(kernel.universes[id].state_vector.data,
                 kernel.universes[id].instruction_pointer) =>
            /\ AfterCallRet(kernel.universes[id].state_vector.data,
                            kernel.universes[id].instruction_pointer).next_ip
                   = kernel.universes[id].instruction_pointer + 2
            /\ Rd(AfterCallRet(kernel.universes[id].state_vector.data,
                               kernel.universes[id].instruction_pointer).mem, SP_ADDR)
                   = Rd(kernel.universes[id].state_vector.data, SP_ADDR)

\* The universe at the other end of a registered interaction.
OtherEnd(ends, a) == IF ends[1] = a THEN ends[2] ELSE ends[1]

\* The interaction ids of path lead from a to b through registered
\* interactions, each one entered at one of its two endpoints.
RECURSIVE IsPath(_, _, _, _)
IsPath(f, a, path, b) ==
    IF path = <<>> THEN a = b
    ELSE /\ Head(path) \in DOMAIN f.interactions
         /\ a \in Range(f.interactions[Head(path)])
         /\ IsPath(f, OtherEnd(f.interactions[Head(path)], a), Tail(path), b)

\* The universes of S and those one registered interaction away from them.
OneHop(f, S) ==
    S \cup {OtherEnd(f.interactions[i], u) :
              i \in {j \in DOMAIN f.interactions : \E v \in S : v \in Range(f.interactions[j])},
              u \in S}

\* The universes at most n hops from a in the registered interaction graph.
RECURSIVE Within(_, _, _)
Within(f, a, n) == IF n = 0 THEN {a} ELSE OneHop(f, Within(f, a, n - 1))

\* What find_path(a, b) answered is right: a path exactly when b can be
\* reached from a, with no path of fewer hops, and empty when a = b.
RightPath(f, a, b, answer) ==
    /\ answer.found <=> b \in Within(f, a, Cardinality(DOMAIN f.interactions))
    /\ answer.found =>
          /\ IsPath(f, a, answer.path, b)
          /\ \A n \in 0..(Len(answer.path) - 1) : b \notin Within(f, a, n)
    /\ a = b => answer = [found |-> TRUE, path |-> <<>>]

\* C37: find_path(a, b) returns interaction ids that form a path from a to b
\* with the fewest hops of all paths in the registered interaction graph,
\* none exactly when b cannot be reached from a, and the empty sequence
\* when a = b.
C37_FindPathShortest ==
    \A a \in FieldUniverses, b \in FieldUniverses :
        RightPath(field.index, a, b, FindPath(field.index, a, b))

\* C37 witness: with one interaction removed, universe 3 is found two hops
\* from universe 1 and another universe is out of reach of it.
C37_Witness ==
    /\ Cardinality(DOMAIN field.index.interactions) < field.next_interaction_id - 1
    /\ FindPath(field.index, 1, 3).found
    /\ Len(FindPath(field.index, 1, 3).path) = 2
    /\ \E b \in FieldUniverses : ~FindPath(field.index, 1, b).found

\* C38: an id handed to a universe or an interaction is never handed out
\* again: the two id counters never go back, whatever collapses or is
\* rewound, and every universe and interaction in the tables has an id its
\* counter has already passed.
C38_IdsNeverReused ==
    [][/\ kernel'.next_universe_id >= kernel.next_universe_id
       /\ kernel'.next_interaction_id >= kernel.next_interaction_id
       /\ \A id \in DOMAIN kernel'.universes : id < kernel'.next_universe_id
       /\ \A id \in DOMAIN kernel'.interactions : id < kernel'.next_interaction_id]_vars

\* C38 witness: a rewind has been done, the universe allocated last is in
\* the table, and a universe allocated before it is gone.
C38_Witness ==
    /\ kernel.rewinds > 0
    /\ kernel.next_universe_id - 1 \in DOMAIN kernel.universes
    /\ \E gone \in 1..(kernel.next_universe_id - 2) : gone \notin DOMAIN kernel.universes

\* C39: in every state the kernel's operations reach, collapses, branches and
\* rewinds included, the source and the target of every interaction in the
\* interaction table are universes in the universe table.
C39_EndpointsLive ==
    \A i \in DOMAIN kernel.interactions :
        /\ kernel.interactions[i].source \in DOMAIN kernel.universes
        /\ kernel.interactions[i].target \in DOMAIN kernel.universes

\* C39 witness: an interaction is in the table after a universe that had
\* been allocated has left the universe table.
C39_Witness ==
    /\ DOMAIN kernel.interactions # {}
    /\ \E gone \in 1..(kernel.next_universe_id - 1) : gone \notin DOMAIN kernel.universes

\* No interaction attached to the universe has momentum: the universe has
\* no attached interaction, or all of them join endpoints of equal energy.
Unpressed(k, id) ==
    \A i \in k.universes[id].interaction_links \cap DOMAIN k.interactions :
        k.interactions[i].momentum = 0

\* The universe id is in both kernels with the same instruction pointer,
\* memory, local clock, entropy and stability.
SameProgress(before, after, id) ==
    /\ id \in DOMAIN after.universes
    /\ after.universes[id].instruction_pointer = before.universes[id].instruction_pointer
    /\ after.universes[id].state_vector = before.universes[id].state_vector
    /\ after.universes[id].timeline_index = before.universes[id].timeline_index
    /\ after.universes[id].entropy = before.universes[id].entropy
    /\ after.universes[id].stability_score = before.universes[id].stability_score

\* The evolve phase run on the kernel before passes over every universe
\* without momentum on its interactions.
PassesOver(before, tie, pref) ==
    \A id \in DOMAIN before.universes :
        Unpressed(before, id) =>
            /\ id \notin Range(NextTasks(before, tie))
            /\ SameProgress(before, EvolveUniverses(before, tie, pref), id)

PassesOverUnlessRewound(before, tie, pref) ==
    \A id \in DOMAIN before.universes :
        Unpressed(before, id) =>
            /\ id \notin Range(NextTasks(before, tie))
            /\ EvolveUniverses(before, tie, pref).rewinds = before.rewinds =>
                   SameProgress(before, EvolveUniverses(before, tie, pref), id)

====
